---------------------------- MODULE Spec2Model ----------------------------
(***************************************************************************)
(* mood-agent: the risk gate (RiskManager), the decision engine            *)
(* (DecisionEngine.makeDecision) and the execution layer (Executor,        *)
(* ExecutorWorker) as state machines over the shared Redis store.          *)
(*                                                                         *)
(* Granularity: one action per awaited store / chain call.  An action is   *)
(* the processing of the call together with the synchronous continuation   *)
(* that runs up to the next awaited call.                                  *)
(*                                                                         *)
(* Numbers: the source computes in IEEE doubles; the model computes in     *)
(* exact integers.  Fractions of the configuration are kept as the         *)
(* integers named below (0.1 as 10 percent, z-scores in tenths) and every  *)
(* comparison is cross-multiplied, so no division is rounded.              *)
(***************************************************************************)
EXTENDS Integers, Sequences, FiniteSets, TLC

(* ------------------------------ bounds -------------------------------- *)
\* last clock tick of a run
MaxTime == 2
\* number of recordExecution calls the test caller makes in a run
MaxRecords == 4
\* number of store calls that throw in a run
MaxFaults == 1
\* number of decisions made (makeDecision calls, published decisions) in a run
MaxDecisions == 2
\* number of aggregate / reset calls in a run
MaxAggregates == 3

(* ------------------------ program constants --------------------------- *)
\* ticks per calendar day; the TTL of a daily key (24 * 60 * 60 s) is one day
DayTicks == 2
\* config.policy.minTreasuryThreshold = 0.1, as a percentage
minTreasuryThresholdPct == 10
\* config.policy.maxDailySpendPercent
maxDailySpendPercent == 5
\* config.policy.maxConsecutiveLosses
maxConsecutiveLosses == 3
\* config.policy.hypeThreshold = 1.5 and fudThreshold = -1.0, in tenths
hypeThreshold10 == 15
fudThreshold10 == -10
\* config.policy.momentumPositive, momentumNegative
momentumPositive == 0
momentumNegative == 0
\* market.liquidity > 10000
MinLiquidity == 10000
\* this.ema15History.length > 100
HistoryCap == 100
\* config.policy.emaShort, emaMedium, emaLong
emaShort == 5
emaMedium == 15
emaLong == 60
\* SentimentAggregator.maxHistorySize
maxHistorySize == 1000
\* size = k1 * |zScore| * treasuryBalance * dcaFactor with k1 = 0.01 and
\* dcaFactor = 0.5: for a z-score in tenths, |z10| * treasuryBalance / 2000
SizeDivisor == 2000

(* --------------------------- value domains ---------------------------- *)
\* a key that is not in the store
Absent == -1
\* balances the treasury-refresh task observes while the test caller runs
TestBalances == {2000, 6000}
\* amounts the test caller asks canExecute about
TestAmounts == {60, 1900}
\* amounts the test caller records
TestSpends == {60}
KillReasons == {"guardian"}
Days == 0..(MaxTime \div DayTicks)
CeCallers == {"test", "engine", "executor"}
RecCallers == {"test", "executor", "monitor", "monitor2"}

VARIABLES
    now,                \* the clock, in ticks
    faults,             \* store calls that have thrown
    killSwitch,         \* risk:kill_switch = "active"
    killSwitchReason,   \* risk:kill_switch_reason, or "none"
    treasury,           \* treasury:balance, or Absent
    dailyKey,           \* risk:daily_spent:<day> -> [present, val, exp]
    consecutiveLosses,  \* risk:consecutive_losses (absent reads as 0)
    lastExecution,      \* risk:last_execution, or Absent
    ce,                 \* the canExecute call of each caller
    rec,                \* the recordExecution call of each caller
    guardian,           \* position of the kill-switch operator
    nRecords,           \* recordExecution calls made by the test caller
    recorded,           \* history: amount recorded per call day
    outcomes,           \* history: the latest success flags, in recording order
    raised,             \* history: operations that let a store failure escape
    eng,                \* the makeDecision call of the PolicyWorker
    ema15History,       \* DecisionEngine.ema15History
    ema60History,       \* DecisionEngine.ema60History
    nDecisions,         \* decisions created so far; the next timestamp
    policyStore,        \* policy:latest, policy:history:*, policy:timeline
    worker,             \* the main loop of the ExecutorWorker
    ex,                 \* the execute call of the Executor
    mon,                \* the monitorPendingTransactions call
    pending,            \* Executor.pendingExecutions
    execStore,          \* execution:latest, execution:history:*, timeline
    chain,              \* history: swap sizes per day and burns submitted
    cfg,                \* feature flags and environment of the process
    tracker,            \* history: registrations and calls of the monitor runs
    running,            \* ExecutorWorker.isRunning
    historicalScores,   \* SentimentAggregator.historicalScores
    emas,               \* the accumulators ema5, ema15, ema60 (Null: unset)
    mood,               \* the AggregatedMood returned by the latest aggregate
    arrived,            \* history: every rawScore since construction / reset
    nAggregates,        \* aggregate and reset calls made
    lastCall,           \* history: the latest call on the aggregator
    sweeps,             \* history: a monitor run has found the map empty
    dispatched,         \* history: timestamps of the decisions passed to
                        \* execute, and whether a poll has skipped one
    crossover,          \* the value returned by the latest detectCrossover
    settled,            \* the status on chain of the latest registered swap
    limiter,            \* the RateLimiter of the TwitterClient, its clock
                        \* and the history of its acquire calls
    tweetQueue,         \* the list tweets:pending and the set tweets:processed
    enq,                \* the enqueue call of the IngestionWorker
    deq,                \* the dequeue call of the SentimentWorker
    delivered,          \* history: the tweet ids returned by dequeue
    batchBuffer,        \* SentimentWorker.batchBuffer
    pb,                 \* the processBatch calls of the loop and of the timer
    loop,               \* the main loop of the SentimentWorker
    batches,            \* history: the tweets aggregated and those cleared
    rival               \* a second caller of the kill switch

storeVars == <<killSwitch, killSwitchReason, treasury, dailyKey,
               consecutiveLosses, lastExecution>>
histVars == <<recorded, outcomes, raised>>
engineVars == <<eng, ema15History, ema60History>>
policyVars == <<nDecisions, policyStore>>
execVars == <<worker, ex, mon, pending, execStore, chain, cfg, tracker,
              running>>
sentimentVars == <<historicalScores, emas, mood, arrived, nAggregates,
                   lastCall>>
queueVars == <<tweetQueue, enq, deq, delivered>>
batchVars == <<batchBuffer, pb, loop, batches>>
pipelineVars == <<queueVars, batchVars>>
lateVars == <<pipelineVars, rival>>
otherVars == <<sentimentVars, sweeps, dispatched, crossover, settled,
              limiter, lateVars>>
beyondRisk == <<engineVars, policyVars, execVars, otherVars>>
vars == <<now, faults, storeVars, ce, rec, guardian, nRecords, histVars,
          beyondRisk>>

(* ----------------------------- RateLimiter ---------------------------- *)
\* Date.now() is read in steps of TickMs milliseconds
TickMs == 500
\* a limiter counts in units of 1 / (1000 * den) token for a refillRate of
\* num / den tokens per second, so that timePassed * refillRate is a whole
\* number of units for every number of milliseconds
UnitsPerToken(l) == 1000 * l.den
Capacity(l) == l.maxTokens * UnitsPerToken(l)

NoLimiter == [maxTokens |-> 0, num |-> 0, den |-> 1, tokens |-> 0,
              lastRefill |-> 0, clock |-> 0, call |-> 0, n |-> 0,
              ok |-> FALSE, granted |-> 0, since |-> 0]

\* new RateLimiter(maxTokens, num / den) at clock 0
NewLimiter(maxTokens, num, den) ==
    [NoLimiter EXCEPT !.maxTokens = maxTokens, !.num = num, !.den = den,
                      !.tokens = maxTokens * 1000 * den]

\* Math.min(this.maxTokens, this.tokens + tokensToAdd)
CapAtMaxMut(l, t) == t
CapAtMax(l, t) == IF t > Capacity(l) THEN Capacity(l) ELSE t

\* refill()
Refilled(l) ==
    LET timePassed == l.clock - l.lastRefill
        tokensToAdd == timePassed * l.num
    IN  [l EXCEPT !.tokens = CapAtMax(l, l.tokens + tokensToAdd),
                  !.lastRefill = l.clock]

\* acquire(tokens); the call, its argument and its result are recorded, and
\* the granted calls of acquire(1) are counted
Acquire(n) ==
    LET r == Refilled(limiter)
        ok == r.tokens >= n * UnitsPerToken(r)
    IN  limiter' = [r EXCEPT !.tokens = IF ok THEN @ - n * UnitsPerToken(r) ELSE @,
                             !.call = 1 - @,
                             !.n = n,
                             !.ok = ok,
                             !.granted = IF ok /\ n = 1 THEN @ + 1 ELSE @]

\* getAvailableTokens()
GetAvailableTokens == limiter' = Refilled(limiter)

(* ------------------------------- store -------------------------------- *)
\* new Date().toISOString().split("T")[0]
Today(t) == t \div DayTicks

NoKey == [present |-> FALSE, val |-> 0, exp |-> Absent]

\* Redis drops a key whose time to live has run out
Expire(keys, t) ==
    [d \in Days |->
        IF keys[d].present /\ keys[d].exp # Absent /\ keys[d].exp <= t
        THEN NoKey ELSE keys[d]]

\* the outcomes of a store call: it returns, or (while the fault budget
\* lasts) it throws
Throws == IF faults < MaxFaults THEN BOOLEAN ELSE {FALSE}
Count(fails) == IF fails THEN faults + 1 ELSE faults

(* --------------------------- RiskManager ------------------------------ *)
\* status === "active"
IsKillSwitchActiveMut == FALSE
IsKillSwitchActive == killSwitch

\* balance ? Number.parseFloat(balance) : 0
GetTreasuryBalance == IF treasury = Absent THEN 0 ELSE treasury

\* the key name `risk:daily_spent:${today}`
DailyKeyNameMut(d) == 0
DailyKeyName(d) == d

\* spent ? Number.parseFloat(spent) : 0
GetDailySpent(d) ==
    IF dailyKey[DailyKeyName(d)].present THEN dailyKey[DailyKeyName(d)].val ELSE 0

\* losses ? Number.parseInt(losses) : 0
GetConsecutiveLosses == consecutiveLosses

\* treasuryBalance - amount < treasuryBalance * minTreasuryThreshold
ReserveFails(tb, amount) == 100 * (tb - amount) < tb * minTreasuryThresholdPct

\* dailySpent + amount > treasuryBalance * (maxDailySpendPercent / 100)
DailyFailsMut(ds, amount, tb) == 100 * ds > tb * maxDailySpendPercent
DailyFails(ds, amount, tb) == 100 * (ds + amount) > tb * maxDailySpendPercent

\* consecutiveLosses >= maxConsecutiveLosses
LossesFailMut(cl) == cl > maxConsecutiveLosses
LossesFail(cl) == cl >= maxConsecutiveLosses

\* the history keeps one entry more than the loss limit
Latest(s) == IF Len(s) <= maxConsecutiveLosses + 1 THEN s
             ELSE SubSeq(s, Len(s) - maxConsecutiveLosses, Len(s))

\* a canExecute call: position, argument, the locals treasuryBalance and
\* dailySpent with the day of the key read, the result, whether a store call
\* threw, and whether the store and the clock stood still during the call
IdleCe == [pc |-> "idle", amt |-> 0, tb |-> 0, day |-> 0, ds |-> 0,
           res |-> "none", threw |-> FALSE, clean |-> TRUE]
IdleRec == [pc |-> "idle", amt |-> 0, success |-> FALSE, day |-> 0]

\* a store write or a clock tick while a canExecute call is in progress
Touch(f) == [c \in CeCallers |->
                IF f[c].pc = "idle" THEN f[c] ELSE [f[c] EXCEPT !.clean = FALSE]]

\* return { allowed, reason }; the frame keeps the balance the call read
Return(f, reason) == [IdleCe EXCEPT !.pc = "ret", !.amt = f.amt, !.tb = f.tb,
                                    !.res = reason,
                                    !.threw = (reason = "error"),
                                    !.clean = f.clean]

\* canExecute(amount): the call is made and the kill-switch read is issued
CeCall(c, amount) ==
    /\ ce[c].pc = "idle"
    /\ ce' = [ce EXCEPT ![c] = [IdleCe EXCEPT !.pc = "ks", !.amt = amount]]

\* canExecute: the kill-switch read returns (or throws into the catch)
CeKillSwitch(c) ==
    /\ ce[c].pc = "ks"
    /\ \E fails \in Throws :
        /\ faults' = Count(fails)
        /\ ce' = [ce EXCEPT ![c] =
                    IF fails THEN Return(@, "error")
                    ELSE IF IsKillSwitchActive THEN Return(@, "kill")
                    ELSE [@ EXCEPT !.pc = "tb"]]

\* canExecute: the treasury read returns; reserve check; today's key is named
CeTreasury(c) ==
    /\ ce[c].pc = "tb"
    /\ \E fails \in Throws :
        /\ faults' = Count(fails)
        /\ ce' = [ce EXCEPT ![c] =
                    IF fails THEN Return(@, "error")
                    ELSE IF ReserveFails(GetTreasuryBalance, ce[c].amt)
                    THEN Return([@ EXCEPT !.tb = GetTreasuryBalance], "reserve")
                    ELSE [@ EXCEPT !.pc = "ds", !.tb = GetTreasuryBalance,
                                   !.day = Today(now)]]

\* canExecute: the daily-spent read returns; daily limit check
CeDailySpent(c) ==
    /\ ce[c].pc = "ds"
    /\ \E fails \in Throws :
        /\ faults' = Count(fails)
        /\ ce' = [ce EXCEPT ![c] =
                    IF fails THEN Return(@, "error")
                    ELSE IF DailyFails(GetDailySpent(ce[c].day), ce[c].amt, ce[c].tb)
                    THEN Return(@, "daily")
                    ELSE [@ EXCEPT !.pc = "cl", !.ds = GetDailySpent(ce[c].day)]]

\* canExecute: the consecutive-losses read returns; loss check; allow
CeLosses(c) ==
    /\ ce[c].pc = "cl"
    /\ \E fails \in Throws :
        /\ faults' = Count(fails)
        /\ ce' = [ce EXCEPT ![c] =
                    IF fails THEN Return(@, "error")
                    ELSE IF LossesFail(GetConsecutiveLosses)
                    THEN Return(@, "losses")
                    ELSE Return(@, "ok")]

\* one awaited step of the canExecute call of caller c
CanExecuteStep(c) ==
    /\ \/ CeKillSwitch(c)
       \/ CeTreasury(c)
       \/ CeDailySpent(c)
       \/ CeLosses(c)
    /\ UNCHANGED <<now, storeVars, rec, histVars>>

\* recordExecution(amount, success): the call is made, today's key is named
\* and incrbyfloat is issued
RecCall(c, amount, success) ==
    /\ rec[c].pc = "idle"
    /\ rec' = [rec EXCEPT ![c] = [pc |-> "incr", amt |-> amount,
                                  success |-> success, day |-> Today(now)]]

\* redis.incrbyfloat(key, amount): creates the key when it is not there
IncrByFloatMut(keys, d, amount) == keys
IncrByFloat(keys, d, amount) ==
    [keys EXCEPT ![d] = IF @.present THEN [@ EXCEPT !.val = @ + amount]
                        ELSE [present |-> TRUE, val |-> amount, exp |-> Absent]]

\* redis.expire(key, 24 * 60 * 60): no effect on a key that is not there
SetExpire(keys, d, t) ==
    [keys EXCEPT ![d] = IF @.present THEN [@ EXCEPT !.exp = t + DayTicks] ELSE @]

\* success ? redis.set("risk:consecutive_losses", 0) : redis.incr(...)
UpdateLossesMut(cl, success) == IF success THEN cl ELSE cl + 1
UpdateLossesDec(cl, success) == IF success THEN (IF cl > 0 THEN cl - 1 ELSE 0)
                                ELSE cl + 1
UpdateLosses(cl, success) == IF success THEN 0 ELSE cl + 1

\* recordExecution: incrbyfloat returns; a thrown error ends the call (catch)
RecIncr(c) ==
    /\ rec[c].pc = "incr"
    /\ \E fails \in Throws :
        /\ faults' = Count(fails)
        /\ IF fails
           THEN /\ rec' = [rec EXCEPT ![c].pc = "done"]
                /\ UNCHANGED <<storeVars, histVars, ce>>
           ELSE /\ dailyKey' = IncrByFloat(dailyKey, DailyKeyName(rec[c].day),
                                           rec[c].amt)
                /\ recorded' = [recorded EXCEPT ![rec[c].day] = @ + rec[c].amt]
                /\ rec' = [rec EXCEPT ![c].pc = "expire"]
                /\ ce' = Touch(ce)
                /\ UNCHANGED <<killSwitch, killSwitchReason, treasury,
                               consecutiveLosses, lastExecution, outcomes,
                               raised>>

\* recordExecution: expire returns
RecExpire(c) ==
    /\ rec[c].pc = "expire"
    /\ \E fails \in Throws :
        /\ faults' = Count(fails)
        /\ IF fails
           THEN /\ rec' = [rec EXCEPT ![c].pc = "done"]
                /\ UNCHANGED <<storeVars, histVars, ce>>
           ELSE /\ dailyKey' = SetExpire(dailyKey, DailyKeyName(rec[c].day), now)
                /\ rec' = [rec EXCEPT ![c].pc = "loss"]
                /\ UNCHANGED <<killSwitch, killSwitchReason, treasury,
                               consecutiveLosses, lastExecution, histVars, ce>>

\* recordExecution: the set / incr of the loss counter returns
RecLoss(c) ==
    /\ rec[c].pc = "loss"
    /\ \E fails \in Throws :
        /\ faults' = Count(fails)
        /\ IF fails
           THEN /\ rec' = [rec EXCEPT ![c].pc = "done"]
                /\ UNCHANGED <<storeVars, histVars, ce>>
           ELSE /\ consecutiveLosses' =
                        UpdateLosses(consecutiveLosses, rec[c].success)
                /\ outcomes' = Latest(Append(outcomes, rec[c].success))
                /\ rec' = [rec EXCEPT ![c].pc = "last"]
                /\ ce' = Touch(ce)
                /\ UNCHANGED <<killSwitch, killSwitchReason, treasury, dailyKey,
                               lastExecution, recorded, raised>>

\* recordExecution: the set of risk:last_execution returns
RecLast(c) ==
    /\ rec[c].pc = "last"
    /\ \E fails \in Throws :
        /\ faults' = Count(fails)
        /\ IF fails
           THEN /\ rec' = [rec EXCEPT ![c].pc = "done"]
                /\ UNCHANGED <<storeVars, histVars, ce>>
           ELSE /\ lastExecution' = now
                /\ rec' = [rec EXCEPT ![c].pc = "done"]
                /\ UNCHANGED <<killSwitch, killSwitchReason, treasury, dailyKey,
                               consecutiveLosses, histVars, ce>>

\* one awaited step of the recordExecution call of caller c
RecordExecutionStep(c) ==
    /\ \/ RecIncr(c)
       \/ RecExpire(c)
       \/ RecLoss(c)
       \/ RecLast(c)
    /\ UNCHANGED now

\* redis.del(key): the key is absent afterwards, whether or not it was there
DelKeyMut(k) == ~k
DelKey(k) == FALSE

(* ------------------------- kill-switch operator ----------------------- *)
\* a call frame g of a caller of the kill switch, gNext its next value
IdleGuardian == [pc |-> "idle", reason |-> "none"]

\* activateKillSwitch(reason): set("risk:kill_switch", "active") returns;
\* a thrown error leaves the call (there is no catch)
ActivateKillSwitch1By(g, gNext, r) ==
    /\ g.pc = "idle"
    /\ \E fails \in Throws :
        /\ faults' = Count(fails)
        /\ IF fails
           THEN /\ raised' = raised \cup {"activateKillSwitch"}
                /\ gNext = g
                /\ UNCHANGED <<killSwitch, ce>>
           ELSE /\ UNCHANGED raised
                /\ killSwitch' = TRUE
                /\ gNext = [pc |-> "act", reason |-> r]
                /\ ce' = Touch(ce)
    /\ UNCHANGED <<now, killSwitchReason, treasury, dailyKey, consecutiveLosses,
                   lastExecution, rec, recorded, outcomes>>

\* activateKillSwitch: set("risk:kill_switch_reason", reason) returns
ActivateKillSwitch2By(g, gNext) ==
    /\ g.pc = "act"
    /\ \E fails \in Throws :
        /\ faults' = Count(fails)
        /\ raised' = IF fails THEN raised \cup {"activateKillSwitch"} ELSE raised
        /\ killSwitchReason' = IF fails THEN killSwitchReason ELSE g.reason
    /\ gNext = [pc |-> "idle", reason |-> "none"]
    /\ UNCHANGED <<now, killSwitch, treasury, dailyKey, consecutiveLosses,
                   lastExecution, ce, rec, recorded, outcomes>>

\* deactivateKillSwitch(): del("risk:kill_switch") returns
DeactivateKillSwitch1By(g, gNext) ==
    /\ g.pc = "idle"
    /\ \E fails \in Throws :
        /\ faults' = Count(fails)
        /\ IF fails
           THEN /\ raised' = raised \cup {"deactivateKillSwitch"}
                /\ gNext = g
                /\ UNCHANGED <<killSwitch, ce>>
           ELSE /\ UNCHANGED raised
                /\ killSwitch' = DelKey(killSwitch)
                /\ gNext = [pc |-> "deact", reason |-> "none"]
                /\ ce' = Touch(ce)
    /\ UNCHANGED <<now, killSwitchReason, treasury, dailyKey, consecutiveLosses,
                   lastExecution, rec, recorded, outcomes>>

\* deactivateKillSwitch: del("risk:kill_switch_reason") returns
DeactivateKillSwitch2By(g, gNext) ==
    /\ g.pc = "deact"
    /\ \E fails \in Throws :
        /\ faults' = Count(fails)
        /\ raised' = IF fails THEN raised \cup {"deactivateKillSwitch"} ELSE raised
        /\ killSwitchReason' = IF fails THEN killSwitchReason ELSE "none"
    /\ gNext = [pc |-> "idle", reason |-> "none"]
    /\ UNCHANGED <<now, killSwitch, treasury, dailyKey, consecutiveLosses,
                   lastExecution, ce, rec, recorded, outcomes>>

\* the calls of the operator
ActivateKillSwitch1(r) == ActivateKillSwitch1By(guardian, guardian', r)
ActivateKillSwitch2 == ActivateKillSwitch2By(guardian, guardian')
DeactivateKillSwitch1 == DeactivateKillSwitch1By(guardian, guardian')
DeactivateKillSwitch2 == DeactivateKillSwitch2By(guardian, guardian')

(* ------------------------- treasury refresh --------------------------- *)
\* the treasury-refresh timer: solana.getTreasuryBalance() observed b and
\* updateTreasuryBalance(b) wrote it
UpdateTreasuryBalance(b) ==
    /\ \E fails \in Throws :
        /\ faults' = Count(fails)
        /\ IF fails
           THEN /\ raised' = raised \cup {"updateTreasuryBalance"}
                /\ UNCHANGED <<treasury, ce>>
           ELSE /\ treasury' = b
                /\ ce' = Touch(ce)
                /\ UNCHANGED raised
    /\ UNCHANGED <<now, killSwitch, killSwitchReason, dailyKey,
                   consecutiveLosses, lastExecution, rec, recorded, outcomes>>

(* ------------------------------ the clock ----------------------------- *)
Tick ==
    /\ now < MaxTime
    /\ now' = now + 1
    /\ dailyKey' = Expire(dailyKey, now + 1)
    /\ ce' = Touch(ce)
    /\ UNCHANGED <<faults, killSwitch, killSwitchReason, treasury,
                   consecutiveLosses, lastExecution, rec, histVars>>

(* --------------------------- DecisionEngine --------------------------- *)
\* <<mood.zScore in tenths, market.momentum, market.liquidity>> as the
\* PolicyWorker passes them in: at and next to the thresholds of the rules
Signals == {<<15, 0, 10001>>, <<15, -1, 10001>>, <<-10, 0, 10001>>,
            <<-110, -1, 10000>>, <<-10, 1, 10001>>, <<-9, -1, 10001>>,
            <<-9, -1, 10000>>}
\* the (mood.ema15, mood.ema60) pairs it passes in
EmaPairs == {<<0, 0>>, <<0, 1>>}
\* balances the treasury-refresh task observes while the engine runs
\* (multiples of SizeDivisor, so that the size is an integer)
EngineBalances == {0, 2000, 4000}
\* makeDecision calls made before the run starts
PriorCalls == {0, HistoryCap - 1}

Abs(x) == IF x < 0 THEN -x ELSE x

\* mood.zScore >= hypeThreshold && market.momentum >= momentumPositive
Rule1(z, mom) == z >= hypeThreshold10 /\ mom >= momentumPositive

\* mood.zScore <= fudThreshold && market.momentum <= momentumNegative
Rule2(z, mom) == z <= fudThreshold10 /\ mom <= momentumNegative

LiquidityOk(liq) == liq > MinLiquidity

\* lib/utils/math detectCrossover
DetectCrossoverMut(fastValues, slowValues) ==
    IF Len(fastValues) < 2 \/ Len(slowValues) < 2 THEN "none"
    ELSE LET fastPrev == fastValues[Len(fastValues) - 1]
             fastCurr == fastValues[Len(fastValues)]
             slowPrev == slowValues[Len(slowValues) - 1]
             slowCurr == slowValues[Len(slowValues)]
             wasBelowNowAbove == fastPrev < slowPrev /\ fastCurr > slowCurr
             wasAboveNowBelow == fastPrev > slowPrev /\ fastCurr < slowCurr
         IN  IF wasBelowNowAbove THEN "up"
             ELSE IF wasAboveNowBelow THEN "down"
             ELSE "none"
DetectCrossover(fastValues, slowValues) ==
    IF Len(fastValues) < 2 \/ Len(slowValues) < 2 THEN "none"
    ELSE LET fastPrev == fastValues[Len(fastValues) - 1]
             fastCurr == fastValues[Len(fastValues)]
             slowPrev == slowValues[Len(slowValues) - 1]
             slowCurr == slowValues[Len(slowValues)]
             wasBelowNowAbove == fastPrev <= slowPrev /\ fastCurr > slowCurr
             wasAboveNowBelow == fastPrev >= slowPrev /\ fastCurr < slowCurr
         IN  IF wasBelowNowAbove THEN "up"
             ELSE IF wasAboveNowBelow THEN "down"
             ELSE "none"

DetectBearishCrossoverMut(fast, slow) ==
    fast # <<>> /\ slow # <<>> /\ fast[Len(fast)] < slow[Len(slow)]
DetectBearishCrossover(fast, slow) ==
    IF Len(fast) < 2 \/ Len(slow) < 2 THEN FALSE
    ELSE DetectCrossover(fast, slow) = "down"

\* the if / else if chain of makeDecision
SelectRuleMut(z, mom, bearish, liquidityOk) ==
    IF bearish /\ liquidityOk THEN "burn"
    ELSE IF Rule1(z, mom) THEN "hodl"
    ELSE IF Rule2(z, mom) THEN "dip"
    ELSE "default"
SelectRule(z, mom, bearish, liquidityOk) ==
    IF Rule1(z, mom) THEN "hodl"
    ELSE IF Rule2(z, mom) THEN "dip"
    ELSE IF bearish /\ liquidityOk THEN "burn"
    ELSE "default"

ActionOf(rule) ==
    CASE rule = "hodl" -> "HODL_TREASURY"
      [] rule = "dip" -> "BUYBACK"
      [] rule = "burn" -> "BURN"
      [] OTHER -> "NOOP"

\* k1 * Math.abs(mood.zScore) * treasuryBalance * dcaFactor
BuybackSizeMut(z, tb) == (Abs(z) * tb) \div (SizeDivisor \div 2)
BuybackSize(z, tb) == (Abs(z) * tb) \div SizeDivisor

\* this.ema15History.length > 100
OverCapMut(h) == Len(h) >= HistoryCap
OverCap(h) == Len(h) > HistoryCap

\* Array.prototype.shift
Shift(h) == IF h = <<>> THEN h ELSE Tail(h)

NoDecision == [ts |-> 0, action |-> "none", params |-> FALSE, size |-> 0]
NoPolicy == [latest |-> NoDecision, history |-> {}, timeline |-> {}]

\* a makeDecision call: position, the arguments, the locals treasuryBalance
\* and size, the decision being built (timestamp, action, reason, whether it
\* has executionParams), and what the risk check answered and read
IdleEng == [pc |-> "idle", z |-> 0, mom |-> 0, liq |-> 0, ema15 |-> 0,
            ema60 |-> 0, tb |-> 0, size |-> 0,
            ts |-> 0, action |-> "none", reason |-> "none", why |-> "none",
            params |-> FALSE, riskRes |-> "none", riskTb |-> 0,
            failed |-> FALSE]

\* the PolicyDecision object of a call frame
DecisionOf(f) == [ts |-> f.ts, action |-> f.action, params |-> f.params,
                  size |-> IF f.params THEN f.size ELSE 0]

\* makeDecision(mood, market): both histories are pushed and trimmed, the
\* rules are evaluated; the buy-the-dip rule awaits getRiskMetrics, every
\* other rule builds the decision and issues the first write of storeDecision
MakeDecision(z, mom, liq, ema15, ema60) ==
    /\ eng.pc = "idle"
    /\ LET pushed15 == Append(ema15History, ema15)
           pushed60 == Append(ema60History, ema60)
           h15 == IF OverCap(pushed15) THEN Shift(pushed15) ELSE pushed15
           h60 == IF OverCap(pushed15) THEN Shift(pushed60) ELSE pushed60
           rule == SelectRule(z, mom, DetectBearishCrossover(h15, h60),
                              LiquidityOk(liq))
       IN  /\ ema15History' = h15
           /\ ema60History' = h60
           /\ IF rule = "dip"
              THEN /\ eng' = [IdleEng EXCEPT !.pc = "metrics", !.z = z,
                                             !.mom = mom, !.liq = liq,
                                             !.ema15 = ema15, !.ema60 = ema60,
                                             !.action = "BUYBACK",
                                             !.reason = "dip"]
                   /\ UNCHANGED nDecisions
              ELSE /\ eng' = [IdleEng EXCEPT !.pc = "store1", !.z = z,
                                             !.mom = mom, !.liq = liq,
                                             !.ema15 = ema15, !.ema60 = ema60,
                                             !.action = ActionOf(rule),
                                             !.reason = rule,
                                             !.ts = nDecisions + 1]
                   /\ nDecisions' = nDecisions + 1
    /\ UNCHANGED <<now, faults, storeVars, ce, rec, histVars, policyStore>>

\* getRiskMetrics returns (its five reads are one Promise.all; only
\* treasuryBalance is used): the size is computed, executionParams is set and
\* canExecute(size) is called.  When a read throws, getRiskMetrics rethrows
\* and the catch of makeDecision returns getNoopDecision.
EngMetrics ==
    /\ eng.pc = "metrics"
    /\ \E fails \in Throws :
        /\ faults' = Count(fails)
        /\ IF fails
           THEN /\ eng' = [eng EXCEPT !.pc = "ret", !.action = "NOOP",
                                      !.reason = "error", !.params = FALSE,
                                      !.ts = nDecisions + 1, !.failed = TRUE]
                /\ nDecisions' = nDecisions + 1
                /\ raised' = raised \cup {"getRiskMetrics"}
                /\ UNCHANGED ce
           ELSE /\ eng' = [eng EXCEPT !.pc = "risk", !.tb = GetTreasuryBalance,
                                      !.size = BuybackSize(eng.z, GetTreasuryBalance),
                                      !.params = TRUE]
                /\ CeCall("engine", BuybackSize(eng.z, GetTreasuryBalance))
                /\ UNCHANGED <<nDecisions, raised>>
    /\ UNCHANGED <<now, storeVars, rec, recorded, outcomes, ema15History,
                   ema60History, policyStore>>

\* riskCheck.allowed
AllowedMut(res) == TRUE
Allowed(res) == res = "ok"

\* canExecute has returned: a rejection turns the decision into NOOP with the
\* rejection reason and no executionParams; the decision is built and the
\* first write of storeDecision is issued
EngRisk ==
    /\ eng.pc = "risk"
    /\ ce["engine"].pc = "ret"
    /\ eng' = IF Allowed(ce["engine"].res)
              THEN [eng EXCEPT !.pc = "store1", !.ts = nDecisions + 1,
                               !.riskRes = ce["engine"].res,
                               !.riskTb = ce["engine"].tb]
              ELSE [eng EXCEPT !.pc = "store1", !.ts = nDecisions + 1,
                               !.action = "NOOP", !.reason = "blocked",
                               !.why = ce["engine"].res, !.params = FALSE,
                               !.riskRes = ce["engine"].res,
                               !.riskTb = ce["engine"].tb,
                               !.failed = ce["engine"].threw]
    /\ nDecisions' = nDecisions + 1
    /\ ce' = [ce EXCEPT !["engine"] = IdleCe]
    /\ UNCHANGED <<now, faults, storeVars, rec, histVars, ema15History,
                   ema60History, policyStore>>

\* storeDecision: redis.set("policy:latest", ...) returns; a thrown error
\* ends storeDecision (catch) and makeDecision returns the decision
EngStore1 ==
    /\ eng.pc = "store1"
    /\ \E fails \in Throws :
        /\ faults' = Count(fails)
        /\ IF fails
           THEN /\ eng' = [eng EXCEPT !.pc = "ret", !.failed = TRUE]
                /\ UNCHANGED policyStore
           ELSE /\ eng' = [eng EXCEPT !.pc = "store2"]
                /\ policyStore' = [policyStore EXCEPT !.latest = DecisionOf(eng)]
    /\ UNCHANGED <<now, storeVars, ce, rec, histVars, ema15History,
                   ema60History, nDecisions>>

\* storeDecision: redis.set(`policy:history:${timestamp}`, ...) returns
EngStore2 ==
    /\ eng.pc = "store2"
    /\ \E fails \in Throws :
        /\ faults' = Count(fails)
        /\ IF fails
           THEN /\ eng' = [eng EXCEPT !.pc = "ret", !.failed = TRUE]
                /\ UNCHANGED policyStore
           ELSE /\ eng' = [eng EXCEPT !.pc = "store3"]
                /\ policyStore' = [policyStore EXCEPT
                                     !.history = @ \cup {eng.ts}]
    /\ UNCHANGED <<now, storeVars, ce, rec, histVars, ema15History,
                   ema60History, nDecisions>>

\* storeDecision: redis.zadd("policy:timeline", ...) returns; makeDecision
\* returns the decision
EngStore3 ==
    /\ eng.pc = "store3"
    /\ \E fails \in Throws :
        /\ faults' = Count(fails)
        /\ eng' = [eng EXCEPT !.pc = "ret", !.failed = fails]
        /\ policyStore' = IF fails THEN policyStore
                          ELSE [policyStore EXCEPT !.timeline = @ \cup {eng.ts}]
    /\ UNCHANGED <<now, storeVars, ce, rec, histVars, ema15History,
                   ema60History, nDecisions>>

(* ------------------------------ Executor ------------------------------ *)
\* executionParams.size of the BUYBACK decisions found in policy:latest
ExecSizes == {60}
\* decisions the PolicyWorker publishes (timestamps are given on publication)
Published == {[ts |-> 0, action |-> "BUYBACK", params |-> TRUE, size |-> s] :
                  s \in ExecSizes}
             \cup {[ts |-> 0, action |-> "BURN", params |-> FALSE, size |-> 0],
                   [ts |-> 0, action |-> "NOOP", params |-> FALSE, size |-> 0]}
\* the treasury balance on chain
ExecBalances == {2000}
\* treasury token holdings that getTokenBalance reports
TokenBalances == {0, 10}
\* config.features.enableAutoExecution, enableBurn and process.env.TOKEN_MINT
Configs == {[enableAutoExecution |-> TRUE, enableBurn |-> TRUE, tokenMint |-> TRUE],
            [enableAutoExecution |-> FALSE, enableBurn |-> TRUE, tokenMint |-> TRUE],
            [enableAutoExecution |-> TRUE, enableBurn |-> FALSE, tokenMint |-> TRUE],
            [enableAutoExecution |-> TRUE, enableBurn |-> TRUE, tokenMint |-> FALSE]}
TxStatuses == {"pending", "confirmed", "failed"}

IdleWorker == [pc |-> "poll", lastProcessedTimestamp |-> 0]
\* an execute call: position, the decision, and the ExecutionResult
IdleEx == [pc |-> "idle", decision |-> NoDecision, success |-> FALSE,
           error |-> "none"]
\* the timer callbacks of startTransactionMonitoring that can be in flight
\* at one time, and the name under which each calls the RiskManager
Monitors == {1, 2}
MonCaller(m) == IF m = 1 THEN "monitor" ELSE "monitor2"
\* a monitorPendingTransactions run: position and the decision of the entry
\* the loop holds (its size || 0 and its timestamp)
IdleMon == [pc |-> "idle", size |-> 0, ts |-> 0]
\* history of the tracker: entries registered and recordExecution calls made
\* by monitor runs
NoTracker == [registered |-> 0, failed |-> 0]
\* pendingExecutions: both placeholder swaps share one signature, so the map
\* holds at most one entry
NoPending == [present |-> FALSE, decision |-> NoDecision]
NoResults == [latest |-> [ts |-> 0, success |-> FALSE], history |-> {},
              timeline |-> {}]

\* decision.executionParams?.size || 0
SizeOrZero(d) == IF d.params THEN d.size ELSE 0

\* the loop over pendingExecutions has an entry to visit
HasEntriesMut(p) == TRUE
HasEntries(p) == p.present

\* createResult(decision, false, error) followed, in execute, by the call of
\* recordExecution(size || 0, result.success)
FailAndRecord(d, error) ==
    /\ ex' = [pc |-> "record", decision |-> d, success |-> FALSE,
              error |-> error]
    /\ RecCall("executor", SizeOrZero(d), FALSE)

\* execute: if (!config.features.enableAutoExecution)
AutoExecutionOffMut(c) == FALSE
AutoExecutionOff(c) == ~c.enableAutoExecution

\* execute(decision) up to its first awaited call
Execute(d) ==
    IF AutoExecutionOff(cfg)
    THEN /\ ex' = [pc |-> "ret", decision |-> d, success |-> FALSE,
                   error |-> "Auto-execution disabled"]
         /\ UNCHANGED <<ce, rec>>
    ELSE IF d.action = "BUYBACK"
    THEN IF SizeOrZero(d) = 0
         THEN /\ FailAndRecord(d, "Missing execution parameters")
              /\ UNCHANGED ce
         ELSE /\ ex' = [IdleEx EXCEPT !.pc = "risk", !.decision = d]
              /\ CeCall("executor", d.size)
              /\ UNCHANGED rec
    ELSE IF d.action \in {"HODL_TREASURY", "NOOP"}
    THEN /\ ex' = [pc |-> "record", decision |-> d, success |-> TRUE,
                   error |-> "No action required"]
         /\ RecCall("executor", SizeOrZero(d), TRUE)
         /\ UNCHANGED ce
    ELSE IF ~cfg.enableBurn
    THEN /\ FailAndRecord(d, "Burn feature disabled")
         /\ UNCHANGED ce
    ELSE IF ~cfg.tokenMint
    THEN /\ FailAndRecord(d, "Token mint not configured")
         /\ UNCHANGED ce
    ELSE /\ ex' = [IdleEx EXCEPT !.pc = "bal", !.decision = d]
         /\ UNCHANGED <<ce, rec>>

\* ExecutorWorker.start: the negation of
\* decision.action !== "NOOP" && decision.action !== "HODL_TREASURY"
NoActionMut(action) == action = "NOOP"
NoAction(action) == action \in {"NOOP", "HODL_TREASURY"}

\* ExecutorWorker.start: if (decisionTimestamp <= this.lastProcessedTimestamp)
AlreadyProcessedMut(ts, last) == ts < last
AlreadyProcessed(ts, last) == ts <= last

\* ExecutorWorker.start: the catch of the loop body logs, sleeps 5 s and lets
\* the while loop go on
CatchInLoopMut(w) == [w EXCEPT !.pc = "stopped"]
CatchInLoop(w) == w

\* ExecutorWorker.start: while (this.isRunning) finds the flag cleared and
\* the loop ends
WorkerExit ==
    /\ worker.pc = "poll"
    /\ ~running
    /\ worker' = [worker EXCEPT !.pc = "stopped"]
    /\ UNCHANGED <<now, faults, storeVars, ce, rec, histVars, engineVars,
                   policyVars, ex, mon, pending, execStore, chain, cfg,
                   tracker, running>>

\* ExecutorWorker.stop()
Stop ==
    /\ running
    /\ running' = FALSE
    /\ UNCHANGED <<now, faults, storeVars, ce, rec, histVars, engineVars,
                   policyVars, worker, ex, mon, pending, execStore, chain, cfg,
                   tracker>>

\* ExecutorWorker.start: the loop test passes and redis.get("policy:latest")
\* returns; a decision that
\* is new is executed unless it is NOOP or HODL_TREASURY; an error, a missing
\* or an old decision end the iteration
WorkerPoll ==
    /\ worker.pc = "poll"
    /\ running
    /\ \E fails \in Throws :
        /\ faults' = Count(fails)
        /\ IF fails
           THEN /\ worker' = CatchInLoop(worker)
                /\ UNCHANGED <<ex, ce, rec>>
           ELSE IF \/ policyStore.latest.ts = 0
                   \/ AlreadyProcessed(policyStore.latest.ts,
                                       worker.lastProcessedTimestamp)
           THEN UNCHANGED <<worker, ex, ce, rec>>
           ELSE IF NoAction(policyStore.latest.action)
           THEN /\ worker' = [worker EXCEPT !.lastProcessedTimestamp =
                                                policyStore.latest.ts]
                /\ UNCHANGED <<ex, ce, rec>>
           ELSE /\ worker' = [worker EXCEPT !.pc = "exec"]
                /\ Execute(policyStore.latest)
    /\ UNCHANGED <<now, storeVars, histVars, engineVars, policyVars, mon,
                   pending, execStore, chain, cfg, tracker,
                   running>>

\* ExecutorWorker.start: execute has returned; the decision is marked
WorkerExecDone ==
    /\ worker.pc = "exec"
    /\ ex.pc = "ret"
    /\ worker' = [pc |-> "poll", lastProcessedTimestamp |-> ex.decision.ts]
    /\ ex' = IdleEx
    /\ UNCHANGED <<now, faults, storeVars, ce, rec, histVars, engineVars,
                   policyVars, mon, pending, execStore, chain, cfg, tracker,
                   running>>

\* executeBuyback: canExecute has returned; a rejection or a missing token
\* mint fails the execution, otherwise solana.executeSwap is called
ExRisk ==
    /\ ex.pc = "risk"
    /\ ce["executor"].pc = "ret"
    /\ ce' = [ce EXCEPT !["executor"] = IdleCe]
    /\ IF ce["executor"].res # "ok"
       THEN /\ FailAndRecord(ex.decision, ce["executor"].res)
            /\ UNCHANGED chain
       ELSE IF ~cfg.tokenMint
       THEN /\ FailAndRecord(ex.decision, "Token mint not configured")
            /\ UNCHANGED chain
       ELSE /\ ex' = [ex EXCEPT !.pc = "swap"]
            /\ chain' = [chain EXCEPT !.swapped[Today(now)] = @ + ex.decision.size]
            /\ UNCHANGED rec
    /\ UNCHANGED <<now, faults, storeVars, histVars, engineVars, policyVars,
                   worker, mon, pending, execStore, cfg, tracker,
                   running>>

\* executeBuyback: executeSwap returns the signature, which is added to
\* pendingExecutions, or throws; execute calls recordExecution
ExSwap ==
    /\ ex.pc = "swap"
    /\ \E thrown \in BOOLEAN :
        IF thrown
        THEN /\ FailAndRecord(ex.decision, "swap failed")
             /\ UNCHANGED <<pending, tracker>>
        ELSE /\ pending' = [present |-> TRUE, decision |-> ex.decision]
             /\ tracker' = [tracker EXCEPT !.registered = @ + 1]
             /\ ex' = [ex EXCEPT !.pc = "record", !.success = TRUE,
                                 !.error = "Buyback executed"]
             /\ RecCall("executor", SizeOrZero(ex.decision), TRUE)
    /\ UNCHANGED <<now, faults, storeVars, ce, histVars, engineVars, policyVars,
                   worker, mon, execStore, chain, cfg, running>>

\* executeBurn: getTokenBalance returns or throws; with nothing to burn the
\* execution fails, otherwise solana.burnTokens is called
ExBal ==
    /\ ex.pc = "bal"
    /\ \/ /\ FailAndRecord(ex.decision, "balance failed")
          /\ UNCHANGED chain
       \/ \E balance \in TokenBalances :
            IF balance = 0
            THEN /\ FailAndRecord(ex.decision, "No tokens to burn")
                 /\ UNCHANGED chain
            ELSE /\ ex' = [ex EXCEPT !.pc = "burn"]
                 /\ chain' = [chain EXCEPT !.burns = @ + 1]
                 /\ UNCHANGED rec
    /\ UNCHANGED <<now, faults, storeVars, ce, histVars, engineVars, policyVars,
                   worker, mon, pending, execStore, cfg, tracker,
                   running>>

\* executeBurn: burnTokens returns the signature or throws; execute calls
\* recordExecution
ExBurn ==
    /\ ex.pc = "burn"
    /\ \E thrown \in BOOLEAN :
        IF thrown
        THEN FailAndRecord(ex.decision, "burn failed")
        ELSE /\ ex' = [ex EXCEPT !.pc = "record", !.success = TRUE,
                                 !.error = "Burn executed"]
             /\ RecCall("executor", SizeOrZero(ex.decision), TRUE)
    /\ UNCHANGED <<now, faults, storeVars, ce, histVars, engineVars, policyVars,
                   worker, mon, pending, execStore, chain, cfg, tracker,
                   running>>

\* execute: recordExecution has returned; storeResult issues its first write
ExRecorded ==
    /\ ex.pc = "record"
    /\ rec["executor"].pc = "done"
    /\ rec' = [rec EXCEPT !["executor"] = IdleRec]
    /\ ex' = [ex EXCEPT !.pc = "res1"]
    /\ UNCHANGED <<now, faults, storeVars, ce, histVars, engineVars, policyVars,
                   worker, mon, pending, execStore, chain, cfg, tracker,
                   running>>

\* storeResult: redis.set("execution:latest", ...) returns; a thrown error
\* ends storeResult (catch) and execute returns the result
ExRes1 ==
    /\ ex.pc = "res1"
    /\ \E fails \in Throws :
        /\ faults' = Count(fails)
        /\ IF fails
           THEN /\ ex' = [ex EXCEPT !.pc = "ret"]
                /\ UNCHANGED execStore
           ELSE /\ ex' = [ex EXCEPT !.pc = "res2"]
                /\ execStore' = [execStore EXCEPT !.latest =
                                    [ts |-> ex.decision.ts,
                                     success |-> ex.success]]
    /\ UNCHANGED <<now, storeVars, ce, rec, histVars, engineVars, policyVars,
                   worker, mon, pending, chain, cfg, tracker,
                   running>>

\* storeResult: redis.set(`execution:history:${timestamp}`, ...) returns
ExRes2 ==
    /\ ex.pc = "res2"
    /\ \E fails \in Throws :
        /\ faults' = Count(fails)
        /\ IF fails
           THEN /\ ex' = [ex EXCEPT !.pc = "ret"]
                /\ UNCHANGED execStore
           ELSE /\ ex' = [ex EXCEPT !.pc = "res3"]
                /\ execStore' = [execStore EXCEPT
                                    !.history = @ \cup
                                        {[ts |-> ex.decision.ts,
                                          success |-> ex.success]}]
    /\ UNCHANGED <<now, storeVars, ce, rec, histVars, engineVars, policyVars,
                   worker, mon, pending, chain, cfg, tracker,
                   running>>

\* storeResult: redis.zadd("execution:timeline", ...) returns; execute
\* returns the result
ExRes3 ==
    /\ ex.pc = "res3"
    /\ \E fails \in Throws :
        /\ faults' = Count(fails)
        /\ ex' = [ex EXCEPT !.pc = "ret"]
        /\ execStore' = IF fails THEN execStore
                        ELSE [execStore EXCEPT
                                !.timeline = @ \cup {ex.decision.ts}]
    /\ UNCHANGED <<now, storeVars, ce, rec, histVars, engineVars, policyVars,
                   worker, mon, pending, chain, cfg, tracker,
                   running>>

\* monitorPendingTransactions: the timer fires; the loop takes the entry of
\* pendingExecutions and calls getTransactionStatus, or returns at once when
\* the map is empty
MonPoll(m) ==
    /\ mon[m].pc = "idle"
    /\ IF HasEntries(pending)
       THEN /\ mon' = [mon EXCEPT ![m] =
                        [pc |-> "status", size |-> SizeOrZero(pending.decision),
                         ts |-> pending.decision.ts]]
       ELSE UNCHANGED mon
    /\ UNCHANGED <<now, faults, storeVars, ce, rec, histVars, engineVars,
                   policyVars, worker, ex, pending, execStore, chain, cfg,
                   tracker, running>>

\* monitorPendingTransactions: if (status === "confirmed")
IsConfirmedMut(status) == FALSE
IsConfirmed(status) == status = "confirmed"

\* monitorPendingTransactions: the status returns (a failing query reads as
\* "pending"); confirmed and failed delete the entry, failed calls
\* recordExecution(size || 0, false)
MonStatusWith(m, status) ==
    /\ mon[m].pc = "status"
    /\  IF IsConfirmed(status)
        THEN /\ pending' = NoPending
             /\ mon' = [mon EXCEPT ![m] = IdleMon]
             /\ UNCHANGED <<rec, tracker>>
        ELSE IF status = "failed"
        THEN /\ pending' = NoPending
             /\ mon' = [mon EXCEPT ![m].pc = "record"]
             /\ tracker' = [tracker EXCEPT !.failed = @ + 1]
             /\ RecCall(MonCaller(m), mon[m].size, FALSE)
        ELSE /\ mon' = [mon EXCEPT ![m] = IdleMon]
             /\ UNCHANGED <<pending, rec, tracker>>
    /\ UNCHANGED <<now, faults, storeVars, ce, histVars, engineVars, policyVars,
                   worker, ex, execStore, chain, cfg, running>>

MonStatus(m) == \E status \in TxStatuses : MonStatusWith(m, status)

\* monitorPendingTransactions: recordExecution has returned
MonRecorded(m) ==
    /\ mon[m].pc = "record"
    /\ rec[MonCaller(m)].pc = "done"
    /\ rec' = [rec EXCEPT ![MonCaller(m)] = IdleRec]
    /\ mon' = [mon EXCEPT ![m] = IdleMon]
    /\ UNCHANGED <<now, faults, storeVars, ce, histVars, engineVars, policyVars,
                   worker, ex, pending, execStore, chain, cfg, tracker,
                   running>>

\* a freshly constructed ExecutorWorker and Executor
InitExecutor ==
    /\ worker = IdleWorker
    /\ ex = IdleEx
    /\ mon = [m \in Monitors |-> IdleMon]
    /\ tracker = NoTracker
    /\ running = TRUE
    /\ pending = NoPending
    /\ execStore = NoResults
    /\ chain = [swapped |-> [d \in Days |-> 0], burns |-> 0]

\* a freshly constructed engine and an empty policy store
InitPolicy ==
    /\ eng = IdleEng
    /\ ema15History = <<>>
    /\ ema60History = <<>>
    /\ nDecisions = 0
    /\ policyStore = NoPolicy

(* ------------------------------ TweetQueue ---------------------------- *)
\* the tweet ids the search returns
TweetIds == {1, 2}

NoQueue == [pending |-> <<>>, processed |-> {}]
IdleEnq == [pc |-> "idle", id |-> 0, calls |-> 0]
IdleDeq == [pc |-> "idle", id |-> 0]

\* redis.sismember(processedKey, tweet.id)
IsProcessed(q, id) == id \in q.processed

\* redis.lpush(queueKey, JSON.stringify(tweet)): the new head of the list
Lpush(q, id) == [q EXCEPT !.pending = <<id>> \o q.pending]

\* redis.brpop(queueKey, 5): the tail of the list, taken off it
Brpop(q) == [q EXCEPT !.pending = SubSeq(q.pending, 1, Len(q.pending) - 1)]
Tail1(q) == q.pending[Len(q.pending)]

\* redis.sadd(processedKey, tweet.id)
Sadd(q, id) == [q EXCEPT !.processed = q.processed \cup {id}]

\* enqueue(tweet) is called
EnqueueCall(id) ==
    /\ enq.pc = "idle"
    /\ enq' = [enq EXCEPT !.pc = "sismember", !.id = id, !.calls = enq.calls + 1]
    /\ UNCHANGED <<faults, tweetQueue, deq, delivered>>

\* await sismember; a tweet that is processed is skipped; an error is
\* logged and thrown to the caller
EnqMember ==
    /\ enq.pc = "sismember"
    /\ \E fails \in Throws :
        /\ faults' = Count(fails)
        /\ enq' = [enq EXCEPT !.pc = IF fails \/ IsProcessed(tweetQueue, enq.id)
                                      THEN "idle" ELSE "lpush"]
    /\ UNCHANGED <<tweetQueue, deq, delivered>>

\* await lpush
EnqPush ==
    /\ enq.pc = "lpush"
    /\ \E fails \in Throws :
        /\ faults' = Count(fails)
        /\ tweetQueue' = IF fails THEN tweetQueue ELSE Lpush(tweetQueue, enq.id)
    /\ enq' = [enq EXCEPT !.pc = "idle"]
    /\ UNCHANGED <<deq, delivered>>

\* dequeue() is called
DequeueCall ==
    /\ deq.pc = "idle"
    /\ deq' = [deq EXCEPT !.pc = "brpop"]
    /\ UNCHANGED <<faults, tweetQueue, enq, delivered>>

\* await brpop: null after the timeout on an empty list; every error of
\* dequeue is logged and null is returned
DeqPop ==
    /\ deq.pc = "brpop"
    /\ \E fails \in Throws :
        /\ faults' = Count(fails)
        /\ IF fails \/ tweetQueue.pending = <<>>
           THEN /\ deq' = IdleDeq
                /\ UNCHANGED tweetQueue
           ELSE /\ deq' = [pc |-> "sadd", id |-> Tail1(tweetQueue)]
                /\ tweetQueue' = Brpop(tweetQueue)
    /\ UNCHANGED <<enq, delivered>>

\* await sadd
DeqMark ==
    /\ deq.pc = "sadd"
    /\ \E fails \in Throws :
        /\ faults' = Count(fails)
        /\ IF fails
           THEN /\ deq' = IdleDeq
                /\ UNCHANGED tweetQueue
           ELSE /\ deq' = [deq EXCEPT !.pc = "expire"]
                /\ tweetQueue' = Sadd(tweetQueue, deq.id)
    /\ UNCHANGED <<enq, delivered>>

\* await expire(processedKey, 7 days); return tweet
DeqExpire ==
    /\ deq.pc = "expire"
    /\ \E fails \in Throws :
        /\ faults' = Count(fails)
        /\ delivered' = IF fails THEN delivered ELSE Append(delivered, deq.id)
    /\ deq' = IdleDeq
    /\ UNCHANGED <<tweetQueue, enq>>

InitTweetQueue ==
    /\ tweetQueue = NoQueue
    /\ enq = IdleEnq
    /\ deq = IdleDeq
    /\ delivered = <<>>

(* ------------------------- SentimentAggregator ------------------------ *)
\* a tweet of a batch: sentiment.value, authorWeight * sentiment.confidence,
\* and whether its text mentions the coin.  The batches are chosen so that
\* totalSentiment / totalWeight is an integer.
Tweet(v, w, c) == [value |-> v, weight |-> w, ourCoin |-> c]
Batches == {<<>>,
            <<Tweet(2, 1, TRUE)>>,
            <<Tweet(4, 1, FALSE), Tweet(-2, 2, TRUE)>>,
            <<Tweet(-3, 0, FALSE)>>,
            <<Tweet(-4, 2, FALSE), Tweet(2, 2, FALSE)>>}
\* non-empty aggregate calls made before the run starts, all of rawScore 0
PriorScores == {0, maxHistorySize - 1}

\* a rational number num / den in lowest terms, den > 0
RECURSIVE Gcd(_, _)
Gcd(a, b) == IF b = 0 THEN a ELSE Gcd(b, a % b)
Frac(n, d) == LET g == Gcd(Abs(n), d)
              IN  [num |-> n \div g, den |-> d \div g]
Null == [num |-> 0, den |-> 0]

\* ExponentialMovingAverage.add with alpha = 2 / (window + 1):
\* alpha * value + (1 - alpha) * ema, the first value initialises the EMA
EmaAddMut(ema, window, value) ==
    IF ema = Null THEN Frac(2 * value, window + 1)
    ELSE Frac(2 * value * ema.den + (window - 1) * ema.num,
              (window + 1) * ema.den)
EmaAdd(ema, window, value) ==
    IF ema = Null THEN Frac(value, 1)
    ELSE Frac(2 * value * ema.den + (window - 1) * ema.num,
              (window + 1) * ema.den)

RECURSIVE SumOver(_, _, _, _)
\* values.reduce((acc, val) => acc + val, 0) over the entries lo..hi of the
\* scores (square = FALSE) or of their squares (square = TRUE); the range is
\* summed by halves, integer addition being associative
SumOver(s, lo, hi, square) ==
    IF lo > hi THEN 0
    ELSE IF lo = hi THEN (IF square THEN s[lo] * s[lo] ELSE s[lo])
    ELSE LET mid == (lo + hi) \div 2
         IN  SumOver(s, lo, mid, square) + SumOver(s, mid + 1, hi, square)

\* calculateZScore(rawScore, calculateMean(h), calculateStdDev(h)) for a
\* history h of n scores with sum S and sum of squares Q: the mean is S / n,
\* the population variance (n * Q - S * S) / n^2, so the z-score is
\* (n * rawScore - S) / sqrt(n * Q - S * S), and 0 when the deviation is 0.
\* It is kept as its sign and its square in lowest terms.
ZScoreOf(rawScore, h) ==
    LET n == Len(h)
        S == SumOver(h, 1, n, FALSE)
        Q == SumOver(h, 1, n, TRUE)
        A == n * rawScore - S
        V == n * Q - S * S
    IN  IF V = 0 \/ A = 0 THEN [sgn |-> 0, sq |-> Frac(0, 1)]
        ELSE [sgn |-> IF A < 0 THEN -1 ELSE 1, sq |-> Frac(A * A, V)]

RECURSIVE WeightedOver(_, _, _, _)
\* the terms lo..hi of the loop over the tweets, summed by halves
WeightedOver(tweets, lo, hi, weighted) ==
    IF lo > hi THEN 0
    ELSE IF lo = hi THEN (IF weighted THEN tweets[lo].value * tweets[lo].weight
                          ELSE tweets[lo].weight)
    ELSE LET mid == (lo + hi) \div 2
         IN  WeightedOver(tweets, lo, mid, weighted)
                + WeightedOver(tweets, mid + 1, hi, weighted)

\* the loop over the tweets: totalSentiment (weighted = TRUE) or totalWeight
WeightedTo(tweets, n, weighted) == WeightedOver(tweets, 1, n, weighted)

\* totalWeight > 0 ? totalSentiment / totalWeight : 0
RawScore(tweets) ==
    LET totalSentiment == WeightedTo(tweets, Len(tweets), TRUE)
        totalWeight == WeightedTo(tweets, Len(tweets), FALSE)
    IN  IF totalWeight > 0 THEN totalSentiment \div totalWeight ELSE 0

\* analyzeTopics: the number of tweets that mention the coin (the fractions
\* are this count and the rest over tweets.length)
OurCoinCount(tweets) == Cardinality({i \in 1..Len(tweets) : tweets[i].ourCoin})

\* tweets.length === 0
EmptyBatchMut(tweets) == FALSE
EmptyBatch(tweets) == Len(tweets) = 0

\* this.historicalScores.length > this.maxHistorySize
HistoryFullMut(h) == Len(h) >= maxHistorySize
HistoryFull(h) == Len(h) > maxHistorySize

\* getEmptyMood()
EmptyMood == [rawScore |-> 0, zScore |-> [sgn |-> 0, sq |-> Frac(0, 1)],
              ema5 |-> Frac(0, 1), ema15 |-> Frac(0, 1), ema60 |-> Frac(0, 1),
              volume |-> 0, ourCoin |-> 0]

\* aggregate(tweets)
Aggregate(tweets) ==
    /\ lastCall' = [op |-> "aggregate", tweets |-> tweets]
    /\ IF EmptyBatch(tweets)
       THEN /\ mood' = EmptyMood
            /\ UNCHANGED <<historicalScores, emas, arrived>>
       ELSE LET rawScore == RawScore(tweets)
                e5 == EmaAdd(emas.ema5, emaShort, rawScore)
                e15 == EmaAdd(emas.ema15, emaMedium, rawScore)
                e60 == EmaAdd(emas.ema60, emaLong, rawScore)
                pushed == Append(historicalScores, rawScore)
                h == IF HistoryFull(pushed) THEN Shift(pushed) ELSE pushed
            IN  /\ emas' = [ema5 |-> e5, ema15 |-> e15, ema60 |-> e60]
                /\ historicalScores' = h
                /\ arrived' = Append(arrived, rawScore)
                /\ mood' = [rawScore |-> rawScore, zScore |-> ZScoreOf(rawScore, h),
                            ema5 |-> e5, ema15 |-> e15, ema60 |-> e60,
                            volume |-> Len(tweets),
                            ourCoin |-> OurCoinCount(tweets)]

\* ---- the same scores as the numbers of the build: IEEE 754 doubles ----
\* a positive double is its exponent and the bits of its 53-bit significand,
\* the leading bit first and 1: the value is bits * 2^exp
MantissaBits == 53
\* quotient bits kept beyond the significand before rounding
GuardBits == 8

Zeros(k) == [i \in 1..k |-> 0]
Nibble(h) == <<(h \div 8) % 2, (h \div 4) % 2, (h \div 2) % 2, h % 2>>
HexBits(hs) ==
    SubSeq([i \in 1..(4 * Len(hs)) |->
                Nibble(hs[((i - 1) \div 4) + 1])[((i - 1) % 4) + 1]],
           1, 4 * Len(hs))
\* the double written 0x1.<frac>p<e>
Double(e, frac) == [exp |-> e - (MantissaBits - 1), bits |-> <<1>> \o HexBits(frac)]

\* the carry out of the bits behind position i of x + y: some position
\* behind i has two 1 bits, and every position between passes a carry on
CarryInto(x, y, i) ==
    IF \E j \in (i + 1)..Len(x) :
            /\ x[j] + y[j] = 2
            /\ \A k \in (i + 1)..(j - 1) : x[k] + y[k] = 1
    THEN 1 ELSE 0
\* x + y for bit strings of one length; the result is one bit longer
AddBits(x, y) ==
    LET sum == [i \in 1..(Len(x) + 1) |->
                    IF i = 1 THEN CarryInto(x, y, 0)
                    ELSE (x[i - 1] + y[i - 1] + CarryInto(x, y, i - 1)) % 2]
    IN  SubSeq(sum, 1, Len(x) + 1)

RECURSIVE StripZeros(_)
StripZeros(b) == IF b # <<>> /\ Head(b) = 0 THEN StripZeros(Tail(b)) ELSE b

\* round to nearest, ties to even: b is an exact result bits * 2^e with its
\* leading bit 1, sticky tells that more of the result lies below its last bit
RoundNearestEven(b, e, sticky) ==
    LET L == Len(b)
        keep == SubSeq(b, 1, MantissaBits)
        guard == IF L > MantissaBits THEN b[MantissaBits + 1] ELSE 0
        rest == sticky \/ \E i \in (MantissaBits + 2)..L : b[i] = 1
        up == guard = 1 /\ (rest \/ keep[MantissaBits] = 1)
        inc == AddBits(keep, Zeros(MantissaBits - 1) \o <<1>>)
    IN  IF ~up THEN [exp |-> e + (L - MantissaBits), bits |-> keep]
        ELSE IF inc[1] = 1
        THEN [exp |-> e + (L - MantissaBits) + 1,
              bits |-> SubSeq(inc, 1, MantissaBits)]
        ELSE [exp |-> e + (L - MantissaBits), bits |-> Tail(inc)]

\* acc + val
FloatAdd(a, b) ==
    LET hi == IF a.exp >= b.exp THEN a ELSE b
        lo == IF a.exp >= b.exp THEN b ELSE a
        d == hi.exp - lo.exp
        sum == AddBits(hi.bits \o Zeros(d), Zeros(d) \o lo.bits)
    IN  RoundNearestEven(StripZeros(sum), lo.exp, FALSE)

RECURSIVE Pow2Mod(_, _)
\* 2^k modulo n
Pow2Mod(k, n) ==
    IF k <= 16 THEN (2 ^ k) % n
    ELSE (Pow2Mod(k \div 2, n) * Pow2Mod(k - (k \div 2), n)) % n

RECURSIVE ValMod(_, _, _, _)
\* the number written by the bits lo..hi of D, modulo n (by halves)
ValMod(D, lo, hi, n) ==
    IF lo > hi THEN 0
    ELSE IF lo = hi THEN D[lo] % n
    ELSE LET mid == (lo + hi) \div 2
         IN  (ValMod(D, lo, mid, n) * Pow2Mod(hi - mid, n)
                + ValMod(D, mid + 1, hi, n)) % n

\* the remainder of the long division of the bits 1..i of D by n
RemAt(D, n, i) == ValMod(D, 1, i, n)
\* sum / values.length
FloatDivInt(a, n) ==
    LET D == a.bits \o Zeros(GuardBits)
        q == [i \in 1..Len(D) |-> (2 * RemAt(D, n, i - 1) + D[i]) \div n]
    IN  RoundNearestEven(StripZeros(SubSeq(q, 1, Len(D))), a.exp - GuardBits,
                         RemAt(D, n, Len(D)) # 0)

FloatLess(a, b) ==
    \/ a.exp < b.exp
    \/ /\ a.exp = b.exp
       /\ \E i \in 1..MantissaBits :
            /\ a.bits[i] < b.bits[i]
            /\ \A j \in 1..(i - 1) : a.bits[j] = b.bits[j]

RECURSIVE FloatSum(_, _)
\* values.reduce((acc, val) => acc + val, 0) over the first n values
\* (0 + val is val)
FloatSum(h, n) == IF n = 1 THEN h[1] ELSE FloatAdd(FloatSum(h, n - 1), h[n])

\* calculateMean
FloatMean(h) == FloatDivInt(FloatSum(h, Len(h)), Len(h))

\* the sign of calculateZScore(value, calculateMean(h), calculateStdDev(h)).
\* val - mean is 0 only for val = mean, the square of a difference that is
\* not 0 is not 0 at these magnitudes, so the computed deviation is 0 exactly
\* when every score equals the computed mean; otherwise the z-score has the
\* sign of value - mean
FloatZSign(value, h) ==
    LET mean == FloatMean(h)
        stdDevIsZero == \A i \in 1..Len(h) : h[i] = mean
    IN  IF stdDevIsZero \/ value = mean THEN 0
        ELSE IF FloatLess(value, mean) THEN -1 ELSE 1

\* rawScores of single-tweet batches of weight 1: 0.1, 0.2, 0.3, 0.5, 0.7
FloatScores ==
    {Double(-4, <<9, 9, 9, 9, 9, 9, 9, 9, 9, 9, 9, 9, 10>>),
     Double(-3, <<9, 9, 9, 9, 9, 9, 9, 9, 9, 9, 9, 9, 10>>),
     Double(-2, <<3, 3, 3, 3, 3, 3, 3, 3, 3, 3, 3, 3, 3>>),
     Double(-1, <<0, 0, 0, 0, 0, 0, 0, 0, 0, 0, 0, 0, 0>>),
     Double(-1, <<6, 6, 6, 6, 6, 6, 6, 6, 6, 6, 6, 6, 6>>)}

\* aggregate(tweets) for a batch of one tweet of weight 1 and of sentiment
\* value score: the history and the z-score of the returned mood, in the
\* arithmetic of the build (the EMA accumulators are those of Aggregate)
FloatAggregate(score) ==
    LET pushed == Append(historicalScores, score)
        h == IF HistoryFull(pushed) THEN Shift(pushed) ELSE pushed
    IN  /\ historicalScores' = h
        /\ arrived' = Append(arrived, score)
        /\ lastCall' = [op |-> "aggregate", tweets |-> <<score>>]
        /\ mood' = [rawScore |-> score,
                    zScore |-> [sgn |-> FloatZSign(score, h)],
                    volume |-> 1]
        /\ UNCHANGED emas

\* reset()
Reset ==
    /\ emas' = [ema5 |-> Null, ema15 |-> Null, ema60 |-> Null]
    /\ historicalScores' = <<>>
    /\ arrived' = <<>>
    /\ lastCall' = [op |-> "reset", tweets |-> <<>>]
    /\ UNCHANGED mood

\* a freshly constructed SentimentAggregator
(* --------------------------- SentimentWorker -------------------------- *)
\* private batchSize = 50
batchSize == 50

\* the tweets are numbered in the order the loop receives them; each is
\* analysed to the same sentiment
TweetsOf(buffer) == [i \in 1..Len(buffer) |-> Tweet(2, 1, TRUE)]
Members(buffer) == {buffer[i] : i \in 1..Len(buffer)}

BatchRuns == {"loop", "timer"}
IdlePb == [pc |-> "idle", volume |-> 0]
\* the loop: position, the tweet in hand, tweets received, and how many of
\* them before the run
IdleLoop == [pc |-> "dequeue", tweet |-> 0, taken |-> 0, prior |-> 0]
NoBatches == [once |-> {}, twice |-> {}, dropped |-> {}, latest |-> 0,
              history |-> 0, timeline |-> 0]

\* this.batchBuffer.length >= this.batchSize
BatchFull(buffer) == Len(buffer) >= batchSize

\* processBatch() up to its await: nothing on an empty buffer, else
\* aggregate(this.batchBuffer) and the call of storeMood
ProcessBatch(r, buffer) ==
    IF Len(buffer) = 0
    THEN UNCHANGED <<pb, batches, historicalScores, emas, mood, arrived,
                     lastCall>>
    ELSE /\ Aggregate(TweetsOf(buffer))
         /\ pb' = [pb EXCEPT ![r] = [pc |-> "latest", volume |-> Len(buffer)]]
         /\ batches' = [batches EXCEPT
                           !.once = @ \cup Members(buffer),
                           !.twice = @ \cup (Members(buffer) \cap batches.once)]

\* this.batchBuffer = [], after storeMood has returned
ClearBuffer(r, stored) ==
    /\ batchBuffer' = <<>>
    /\ pb' = [pb EXCEPT ![r] = IdlePb]
    /\ batches' = [stored EXCEPT
                      !.dropped = @ \cup (Members(batchBuffer) \ batches.once)]

\* storeMood: await redis.set("mood:latest", ...); an error of storeMood is
\* logged and the call returns
PbLatest(r) ==
    /\ pb[r].pc = "latest"
    /\ \E fails \in Throws :
        /\ faults' = Count(fails)
        /\ IF fails THEN ClearBuffer(r, batches)
           ELSE /\ pb' = [pb EXCEPT ![r].pc = "history"]
                /\ batches' = [batches EXCEPT !.latest = pb[r].volume]
                /\ UNCHANGED batchBuffer
    /\ UNCHANGED <<loop, sentimentVars>>

\* storeMood: await redis.set(mood:history:<ts>, ..., "EX", 7 days)
PbHistory(r) ==
    /\ pb[r].pc = "history"
    /\ \E fails \in Throws :
        /\ faults' = Count(fails)
        /\ IF fails THEN ClearBuffer(r, batches)
           ELSE /\ pb' = [pb EXCEPT ![r].pc = "timeline"]
                /\ batches' = [batches EXCEPT !.history = @ + 1]
                /\ UNCHANGED batchBuffer
    /\ UNCHANGED <<loop, sentimentVars>>

\* storeMood: await redis.zadd("mood:timeline", ...); then the buffer is
\* cleared
PbTimeline(r) ==
    /\ pb[r].pc = "timeline"
    /\ \E fails \in Throws :
        /\ faults' = Count(fails)
        /\ ClearBuffer(r, IF fails THEN batches
                          ELSE [batches EXCEPT !.timeline = @ + 1])
    /\ UNCHANGED <<loop, sentimentVars>>

\* const tweet = await this.queue.dequeue() has returned a tweet
LoopDequeue(id) ==
    /\ loop.pc = "dequeue"
    /\ pb["loop"].pc = "idle"
    /\ loop' = [loop EXCEPT !.pc = "predict", !.tweet = id, !.taken = @ + 1]
    /\ UNCHANGED <<faults, batchBuffer, pb, batches, sentimentVars>>

\* processTweet: await this.modelClient.predict(tweet.text) (which never
\* throws); push; processBatch when the buffer is full
LoopPredict ==
    /\ loop.pc = "predict"
    /\ LET pushed == Append(batchBuffer, loop.tweet)
       IN  /\ batchBuffer' = pushed
           /\ IF BatchFull(pushed) THEN ProcessBatch("loop", pushed)
              ELSE UNCHANGED <<pb, batches, historicalScores, emas, mood,
                               arrived, lastCall>>
    /\ loop' = [loop EXCEPT !.pc = "dequeue"]
    /\ UNCHANGED <<faults, nAggregates>>

\* the callback of startBatchTimer
BatchTimer ==
    /\ pb["timer"].pc = "idle"
    /\ Len(batchBuffer) > 0
    /\ ProcessBatch("timer", batchBuffer)
    /\ UNCHANGED <<faults, batchBuffer, loop, nAggregates>>

InitBatch ==
    /\ batchBuffer = <<>>
    /\ pb = [r \in BatchRuns |-> IdlePb]
    /\ loop = IdleLoop
    /\ batches = NoBatches

InitPipeline == InitTweetQueue /\ InitBatch /\ rival = IdleGuardian

InitSentiment ==
    /\ historicalScores = <<>>
    /\ emas = [ema5 |-> Null, ema15 |-> Null, ema60 |-> Null]
    /\ mood = EmptyMood
    /\ arrived = <<>>
    /\ nAggregates = 0
    /\ lastCall = [op |-> "none", tweets |-> <<>>]
    /\ sweeps = FALSE
    /\ dispatched = [ts |-> <<>>, skipped |-> FALSE]
    /\ crossover = "unset"
    /\ settled = "pending"
    /\ limiter = NoLimiter
    /\ InitPipeline

(* ----------------- RiskManager driven by a test caller ---------------- *)
InitStore ==
    /\ now = 0
    /\ faults = 0
    /\ killSwitch = FALSE
    /\ killSwitchReason = "none"
    /\ treasury = Absent
    /\ dailyKey = [d \in Days |-> NoKey]
    /\ consecutiveLosses = 0
    /\ lastExecution = Absent
    /\ ce = [c \in CeCallers |-> IdleCe]
    /\ rec = [c \in RecCallers |-> IdleRec]
    /\ guardian = [pc |-> "idle", reason |-> "none"]
    /\ recorded = [d \in Days |-> 0]
    /\ outcomes = <<>>
    /\ raised = {}

InitRisk ==
    /\ InitStore
    /\ nRecords = 0
    /\ InitPolicy
    /\ InitExecutor
    /\ InitSentiment
    /\ cfg \in {[enableAutoExecution |-> TRUE, enableBurn |-> TRUE,
                  tokenMint |-> TRUE]}

\* the test caller awaits each of its calls before it makes the next
TestIdle == ce["test"].pc = "idle" /\ rec["test"].pc = "idle"

TestCanExecute ==
    /\ TestIdle
    /\ \E a \in TestAmounts : CeCall("test", a)
    /\ UNCHANGED <<now, faults, storeVars, rec, guardian, nRecords, histVars,
                   beyondRisk>>

TestCanExecuteStep ==
    /\ CanExecuteStep("test")
    /\ UNCHANGED <<guardian, nRecords, beyondRisk>>

TestCanExecuteReturn ==
    /\ ce["test"].pc = "ret"
    /\ ce' = [ce EXCEPT !["test"] = IdleCe]
    /\ UNCHANGED <<now, faults, storeVars, rec, guardian, nRecords, histVars,
                   beyondRisk>>

TestRecord ==
    /\ TestIdle
    /\ nRecords < MaxRecords
    /\ \E a \in TestSpends, s \in BOOLEAN : RecCall("test", a, s)
    /\ nRecords' = nRecords + 1
    /\ UNCHANGED <<now, faults, storeVars, ce, guardian, histVars, beyondRisk>>

TestRecordStep ==
    /\ RecordExecutionStep("test")
    /\ UNCHANGED <<guardian, nRecords, beyondRisk>>

TestRecordReturn ==
    /\ rec["test"].pc = "done"
    /\ rec' = [rec EXCEPT !["test"] = IdleRec]
    /\ UNCHANGED <<now, faults, storeVars, ce, guardian, nRecords, histVars,
                   beyondRisk>>

Guardian ==
    /\ \/ \E r \in KillReasons : ActivateKillSwitch1(r)
       \/ ActivateKillSwitch2
       \/ DeactivateKillSwitch1
       \/ DeactivateKillSwitch2
    /\ UNCHANGED <<nRecords, beyondRisk>>

TreasuryRefresh ==
    /\ \E b \in TestBalances : UpdateTreasuryBalance(b)
    /\ UNCHANGED <<guardian, nRecords, beyondRisk>>

ClockTick ==
    /\ Tick
    /\ UNCHANGED <<guardian, nRecords, beyondRisk>>

\* the test caller, the kill-switch operator and the treasury refresh
NextRisk ==
    \/ TestCanExecute
    \/ TestCanExecuteStep
    \/ TestCanExecuteReturn
    \/ TestRecord
    \/ TestRecordStep
    \/ TestRecordReturn
    \/ Guardian
    \/ TreasuryRefresh

SpecRisk == InitRisk /\ [][NextRisk]_vars

\* startTreasuryMonitoring in a run where its store write succeeds
DailyRefresh ==
    /\ TreasuryRefresh
    /\ faults' = faults

\* the test caller, the treasury refresh and the clock
NextDaily ==
    \/ TestCanExecute
    \/ TestCanExecuteStep
    \/ TestCanExecuteReturn
    \/ TestRecord
    \/ TestRecordStep
    \/ TestRecordReturn
    \/ DailyRefresh
    \/ ClockTick

SpecDaily == InitRisk /\ [][NextDaily]_vars

(* ------------- DecisionEngine driven by the PolicyWorker -------------- *)
\* the history after n earlier makeDecision calls
PriorFast(n) == [i \in 1..n |-> i % 2]
PriorSlow(n) == [i \in 1..n |-> 0]

InitEngine ==
    /\ InitStore
    /\ nRecords = 0
    /\ eng = IdleEng
    /\ \E n \in PriorCalls :
        /\ ema15History = PriorFast(n)
        /\ ema60History = PriorSlow(n)
    /\ nDecisions = 0
    /\ policyStore = NoPolicy
    /\ InitExecutor
    /\ InitSentiment
    /\ cfg \in {[enableAutoExecution |-> TRUE, enableBurn |-> TRUE,
                  tokenMint |-> TRUE]}

\* PolicyWorker.start: const decision = await this.engine.makeDecision(...)
PolicyCall ==
    /\ nDecisions < MaxDecisions
    /\ \E s \in Signals, p \in EmaPairs :
        MakeDecision(s[1], s[2], s[3], p[1], p[2])
    /\ UNCHANGED <<guardian, nRecords, execVars, otherVars>>

PolicyStep ==
    /\ \/ EngMetrics
       \/ EngRisk
       \/ EngStore1
       \/ EngStore2
       \/ EngStore3
    /\ UNCHANGED <<guardian, nRecords, execVars, otherVars>>

PolicyRiskStep ==
    /\ CanExecuteStep("engine")
    /\ UNCHANGED <<guardian, nRecords, beyondRisk>>

PolicyReturn ==
    /\ eng.pc = "ret"
    /\ eng' = IdleEng
    /\ UNCHANGED <<now, faults, storeVars, ce, rec, guardian, nRecords,
                   histVars, ema15History, ema60History, policyVars, execVars,
                   otherVars>>

EngineRefresh ==
    /\ \E b \in EngineBalances : UpdateTreasuryBalance(b)
    /\ faults' = faults
    /\ UNCHANGED <<guardian, nRecords, beyondRisk>>

\* the PolicyWorker and the treasury refresh
NextEngine ==
    \/ PolicyCall
    \/ PolicyStep
    \/ PolicyRiskStep
    \/ PolicyReturn
    \/ EngineRefresh

SpecEngine == InitEngine /\ [][NextEngine]_vars

(* --------------- the execution layer: one ExecutorWorker -------------- *)
\* a single-process run with an unchanged treasury balance in which no store
\* call fails (the fault budget is used up from the start)
InitExec ==
    /\ now = 0
    /\ faults = MaxFaults
    /\ killSwitch = FALSE
    /\ killSwitchReason = "none"
    /\ treasury \in ExecBalances
    /\ dailyKey = [d \in Days |-> NoKey]
    /\ consecutiveLosses = 0
    /\ lastExecution = Absent
    /\ ce = [c \in CeCallers |-> IdleCe]
    /\ rec = [c \in RecCallers |-> IdleRec]
    /\ guardian = [pc |-> "idle", reason |-> "none"]
    /\ recorded = [d \in Days |-> 0]
    /\ outcomes = <<>>
    /\ raised = {}
    /\ nRecords = 0
    /\ InitPolicy
    /\ InitExecutor
    /\ InitSentiment
    /\ cfg \in Configs

\* the PolicyWorker has stored a decision under policy:latest
PublishFrom(decisions) ==
    /\ nDecisions < MaxDecisions
    /\ \E d \in decisions :
        policyStore' = [policyStore EXCEPT
                            !.latest = [d EXCEPT !.ts = nDecisions + 1]]
    /\ nDecisions' = nDecisions + 1
    /\ UNCHANGED <<now, faults, storeVars, ce, rec, guardian, nRecords,
                   histVars, engineVars, execVars, otherVars>>

Publish == PublishFrom(Published)

WorkerStep ==
    /\ \/ WorkerPoll
       \/ WorkerExecDone
    /\ UNCHANGED <<guardian, nRecords, otherVars>>

ExecuteStep ==
    /\ \/ ExRisk
       \/ ExSwap
       \/ ExBal
       \/ ExBurn
       \/ ExRecorded
       \/ ExRes1
       \/ ExRes2
       \/ ExRes3
    /\ UNCHANGED <<guardian, nRecords, otherVars>>

ExecuteRiskStep ==
    /\ CanExecuteStep("executor")
    /\ UNCHANGED <<guardian, nRecords, beyondRisk>>

ExecuteRecordStep ==
    /\ RecordExecutionStep("executor")
    /\ UNCHANGED <<guardian, nRecords, beyondRisk>>

MonitorStep ==
    /\ \/ MonPoll(1)
       \/ MonStatus(1)
       \/ MonRecorded(1)
    /\ UNCHANGED <<guardian, nRecords, otherVars>>

MonitorRecordStep ==
    /\ RecordExecutionStep("monitor")
    /\ UNCHANGED <<guardian, nRecords, beyondRisk>>

\* startTreasuryMonitoring: the balance on chain has not changed
ExecRefresh ==
    /\ UpdateTreasuryBalance(GetTreasuryBalance)
    /\ UNCHANGED <<guardian, nRecords, beyondRisk>>

NextExec ==
    \/ Publish
    \/ WorkerStep
    \/ ExecuteStep
    \/ ExecuteRiskStep
    \/ ExecuteRecordStep
    \/ MonitorStep
    \/ MonitorRecordStep
    \/ ExecRefresh
    \/ ClockTick

SpecExec == InitExec /\ [][NextExec]_vars

(* --------- Executor with overlapping transaction monitor runs --------- *)
InitTracker ==
    /\ InitExec
    /\ cfg.enableAutoExecution /\ cfg.enableBurn /\ cfg.tokenMint

\* startTransactionMonitoring: setInterval starts a run every 10 seconds
\* whether or not the previous run has returned
TrackerMonitorStep ==
    /\ \E m \in Monitors :
        /\ \/ MonPoll(m)
           \/ MonStatus(m)
           \/ MonRecorded(m)
        /\ sweeps' = (sweeps \/ (mon[m].pc = "idle" /\ ~pending.present
                                   /\ tracker.registered > 0))
    /\ UNCHANGED <<guardian, nRecords, sentimentVars, dispatched, crossover,
                   settled,
                   limiter,
                   lateVars>>

TrackerMonitorRecordStep ==
    /\ \E m \in Monitors : RecordExecutionStep(MonCaller(m))
    /\ UNCHANGED <<guardian, nRecords, beyondRisk>>

NextTracker ==
    \/ Publish
    \/ WorkerStep
    \/ ExecuteStep
    \/ ExecuteRiskStep
    \/ ExecuteRecordStep
    \/ TrackerMonitorStep
    \/ TrackerMonitorRecordStep

SpecTracker == InitTracker /\ [][NextTracker]_vars

(* ------------- Executor next to the kill-switch operator -------------- *)
NextHalt ==
    \/ Publish
    \/ WorkerStep
    \/ ExecuteStep
    \/ ExecuteRiskStep
    \/ ExecuteRecordStep
    \/ Guardian

SpecHalt == InitTracker /\ [][NextHalt]_vars

(* ------ Executor and monitor runs over several decisions of a day ----- *)
\* a treasury whose daily limit admits more than one buyback of ExecSizes
LossBalances == {6000}
\* the decisions of the day, in the order the PolicyWorker publishes them
LossPlan == <<"BUYBACK", "BURN", "BUYBACK">>
LossPublished(a) == {d \in Published : d.action = a}

InitLoss ==
    /\ now = 0
    /\ faults = MaxFaults
    /\ killSwitch = FALSE
    /\ killSwitchReason = "none"
    /\ treasury \in LossBalances
    /\ dailyKey = [d \in Days |-> NoKey]
    /\ consecutiveLosses = 0
    /\ lastExecution = Absent
    /\ ce = [c \in CeCallers |-> IdleCe]
    /\ rec = [c \in RecCallers |-> IdleRec]
    /\ guardian = [pc |-> "idle", reason |-> "none"]
    /\ recorded = [d \in Days |-> 0]
    /\ outcomes = <<>>
    /\ raised = {}
    /\ nRecords = 0
    /\ InitPolicy
    /\ InitExecutor
    /\ InitSentiment
    /\ cfg = [enableAutoExecution |-> TRUE, enableBurn |-> TRUE,
              tokenMint |-> TRUE]

\* the PolicyWorker stores its next decision once the ExecutorWorker has
\* processed the previous one
LossPublish ==
    /\ nDecisions < Len(LossPlan)
    /\ worker.pc = "poll"
    /\ policyStore.latest.ts = worker.lastProcessedTimestamp
    /\ \E d \in LossPublished(LossPlan[nDecisions + 1]) :
        policyStore' = [policyStore EXCEPT
                            !.latest = [d EXCEPT !.ts = nDecisions + 1]]
    /\ nDecisions' = nDecisions + 1
    /\ UNCHANGED <<now, faults, storeVars, ce, rec, guardian, nRecords,
                   histVars, engineVars, execVars, otherVars>>

NextLoss ==
    \/ LossPublish
    \/ WorkerStep
    \/ ExecuteStep
    \/ ExecuteRiskStep
    \/ ExecuteRecordStep
    \/ TrackerMonitorStep
    \/ TrackerMonitorRecordStep

SpecLoss == InitLoss /\ [][NextLoss]_vars

(* -------- the same decisions when buybacks are paused for losses ------ *)
\* three failed burns have been recorded today
InitPause ==
    /\ now = 0
    /\ faults = MaxFaults
    /\ killSwitch = FALSE
    /\ killSwitchReason = "none"
    /\ treasury \in LossBalances
    /\ dailyKey = [d \in Days |->
                      IF d = 0 THEN [present |-> TRUE, val |-> 0, exp |-> DayTicks]
                      ELSE NoKey]
    /\ consecutiveLosses = maxConsecutiveLosses
    /\ lastExecution = 0
    /\ ce = [c \in CeCallers |-> IdleCe]
    /\ rec = [c \in RecCallers |-> IdleRec]
    /\ guardian = IdleGuardian
    /\ recorded = [d \in Days |-> 0]
    /\ outcomes = [i \in 1..maxConsecutiveLosses |-> FALSE]
    /\ raised = {}
    /\ nRecords = 0
    /\ InitPolicy
    /\ InitExecutor
    /\ InitSentiment
    /\ cfg = [enableAutoExecution |-> TRUE, enableBurn |-> TRUE,
              tokenMint |-> TRUE]

SpecPause == InitPause /\ [][NextLoss]_vars

(* ----------------- the kill switch and its operator ------------------- *)
SwitchReasons == {"guardian", "manual"}

\* the operator's calls of activateKillSwitch(reason) and
\* deactivateKillSwitch(), in any order and any number of times
SwitchGuardian ==
    /\ \/ \E r \in SwitchReasons : ActivateKillSwitch1(r)
       \/ ActivateKillSwitch2
       \/ DeactivateKillSwitch1
       \/ DeactivateKillSwitch2
    /\ UNCHANGED <<nRecords, beyondRisk>>

NextSwitch ==
    \/ SwitchGuardian
    \/ TestCanExecute
    \/ TestCanExecuteStep
    \/ TestCanExecuteReturn
    \/ TreasuryRefresh

SpecSwitch == InitRisk /\ [][NextSwitch]_vars

(* ------------- two concurrent callers of the kill switch -------------- *)
\* a second caller, whose calls of activateKillSwitch and
\* deactivateKillSwitch overlap those of the operator
RivalStep ==
    /\ \/ \E r \in SwitchReasons : ActivateKillSwitch1By(rival, rival', r)
       \/ ActivateKillSwitch2By(rival, rival')
       \/ DeactivateKillSwitch1By(rival, rival')
       \/ DeactivateKillSwitch2By(rival, rival')
    /\ UNCHANGED <<guardian, nRecords, engineVars, policyVars, execVars,
                   sentimentVars, sweeps, dispatched, crossover, settled,
                   limiter, pipelineVars>>

NextRivals ==
    \/ SwitchGuardian
    \/ RivalStep
    \/ TestCanExecute
    \/ TestCanExecuteStep
    \/ TestCanExecuteReturn
    \/ TreasuryRefresh

SpecRivals == InitRisk /\ [][NextRivals]_vars

(* --------------------- the RateLimiter on its own --------------------- *)
\* ticks of the clock in a run
MaxTicks == 8
\* the arguments of acquire
AcquireSizes == {0, 1, 2}
\* small limiters, and the one of the TwitterClient (450 tokens, 0.5 per
\* second) after 449 requests made at once
Limiters == {NewLimiter(2, 1, 2), NewLimiter(3, 1, 1),
             [NewLimiter(450, 1, 2) EXCEPT !.tokens = 1 * 1000 * 2]}

InitLimiter ==
    /\ InitStore
    /\ nRecords = 0
    /\ InitPolicy
    /\ InitExecutor
    /\ cfg = [enableAutoExecution |-> TRUE, enableBurn |-> TRUE,
              tokenMint |-> TRUE]
    /\ historicalScores = <<>>
    /\ emas = [ema5 |-> Null, ema15 |-> Null, ema60 |-> Null]
    /\ mood = EmptyMood
    /\ arrived = <<>>
    /\ nAggregates = 0
    /\ lastCall = [op |-> "none", tweets |-> <<>>]
    /\ sweeps = FALSE
    /\ dispatched = [ts |-> <<>>, skipped |-> FALSE]
    /\ crossover = "unset"
    /\ settled = "pending"
    /\ limiter \in Limiters
    /\ InitPipeline

limiterFrame == <<now, faults, storeVars, ce, rec, guardian, nRecords, histVars,
                  engineVars, policyVars, execVars, sentimentVars, sweeps,
                  dispatched, crossover, settled,
                   lateVars>>

AcquireCall ==
    /\ \E n \in AcquireSizes : Acquire(n)
    /\ UNCHANGED limiterFrame

AvailableCall ==
    /\ GetAvailableTokens
    /\ UNCHANGED limiterFrame

\* time passes: Date.now() does not decrease
LimiterTick ==
    /\ limiter.clock < MaxTicks * TickMs
    /\ \E k \in 1..2 :
        /\ limiter.clock + k * TickMs <= MaxTicks * TickMs
        /\ limiter' = [limiter EXCEPT !.clock = @ + k * TickMs]
    /\ UNCHANGED limiterFrame

\* an interval starts: the granted calls are counted from now on
StartInterval ==
    /\ limiter.granted > 0 \/ limiter.since < limiter.clock
    /\ limiter' = [limiter EXCEPT !.granted = 0, !.since = limiter.clock]
    /\ UNCHANGED limiterFrame

NextLimiter ==
    \/ AcquireCall
    \/ AvailableCall
    \/ LimiterTick
    \/ StartInterval

SpecLimiter == InitLimiter /\ [][NextLimiter]_vars

(* ------------- decisions handed to Executor.execute ------------------- *)
\* the execution loop, with the record of what it passes to execute and of
\* the polls that find a decision already processed
DispatchWorkerStep ==
    /\ \/ WorkerPoll
       \/ WorkerExecDone
    /\ dispatched' =
         [ts |-> IF worker.pc = "poll" /\ worker'.pc = "exec"
                 THEN Append(dispatched.ts, ex'.decision.ts)
                 ELSE dispatched.ts,
          skipped |-> \/ dispatched.skipped
                      \/ /\ worker.pc = "poll"
                         /\ faults' = faults
                         /\ policyStore.latest.ts # 0
                         /\ worker' = worker]
    /\ UNCHANGED <<guardian, nRecords, sentimentVars, sweeps, crossover,
                   settled,
                   limiter,
                   lateVars>>

\* the decisions of Published and one that holds the treasury
DispatchPublish ==
    PublishFrom(Published \cup {[ts |-> 0, action |-> "HODL_TREASURY",
                                  params |-> FALSE, size |-> 0]})

NextDispatch ==
    \/ DispatchPublish
    \/ DispatchWorkerStep
    \/ ExecuteStep
    \/ ExecuteRiskStep
    \/ ExecuteRecordStep
    \/ ExecRefresh

SpecDispatch == InitExec /\ [][NextDispatch]_vars

(* --------------------- detectCrossover on its own --------------------- *)
\* the longest series passed in
MaxSeries == 3
\* the values of its points
SeriesValues == {0, 1, 2}
SeriesUpTo(n) == UNION {[1..k -> SeriesValues] : k \in 0..n}

InitCrossover ==
    /\ now = 0
    /\ faults = MaxFaults
    /\ killSwitch = FALSE
    /\ killSwitchReason = "none"
    /\ treasury = Absent
    /\ dailyKey = [d \in Days |-> NoKey]
    /\ consecutiveLosses = 0
    /\ lastExecution = Absent
    /\ ce = [c \in CeCallers |-> IdleCe]
    /\ rec = [c \in RecCallers |-> IdleRec]
    /\ guardian = [pc |-> "idle", reason |-> "none"]
    /\ recorded = [d \in Days |-> 0]
    /\ outcomes = <<>>
    /\ raised = {}
    /\ nRecords = 0
    /\ eng = IdleEng
    /\ ema15History \in SeriesUpTo(MaxSeries)
    /\ ema60History \in SeriesUpTo(MaxSeries)
    /\ nDecisions = 0
    /\ policyStore = NoPolicy
    /\ InitExecutor
    /\ InitSentiment
    /\ cfg = [enableAutoExecution |-> TRUE, enableBurn |-> TRUE,
              tokenMint |-> TRUE]

\* const crossover = detectCrossover(this.ema15History, this.ema60History)
CrossoverCall ==
    /\ crossover' = DetectCrossover(ema15History, ema60History)
    /\ UNCHANGED <<now, faults, storeVars, ce, rec, guardian, nRecords,
                   histVars, engineVars, policyVars, execVars, sentimentVars,
                   sweeps, dispatched, settled,
                   limiter,
                   lateVars>>

NextCrossover ==
    \/ CrossoverCall

SpecCrossover == InitCrossover /\ [][NextCrossover]_vars

(* -------- the three periodic tasks of the ExecutorWorker, stop() ------ *)
\* the store is reachable except for one call of the run
InitTasks ==
    /\ now = 0
    /\ faults = MaxFaults - 1
    /\ killSwitch = FALSE
    /\ killSwitchReason = "none"
    /\ treasury \in ExecBalances
    /\ dailyKey = [d \in Days |-> NoKey]
    /\ consecutiveLosses = 0
    /\ lastExecution = Absent
    /\ ce = [c \in CeCallers |-> IdleCe]
    /\ rec = [c \in RecCallers |-> IdleRec]
    /\ guardian = [pc |-> "idle", reason |-> "none"]
    /\ recorded = [d \in Days |-> 0]
    /\ outcomes = <<>>
    /\ raised = {}
    /\ nRecords = 0
    /\ InitPolicy
    /\ InitExecutor
    /\ InitSentiment
    /\ cfg = [enableAutoExecution |-> TRUE, enableBurn |-> TRUE,
              tokenMint |-> TRUE]

\* the main loop: one iteration at a time, until the loop test fails
TaskWorkerStep ==
    /\ \/ WorkerPoll
       \/ WorkerExecDone
       \/ WorkerExit
    /\ UNCHANGED <<guardian, nRecords, otherVars>>

\* the PolicyWorker stores its next decision once the ExecutorWorker has
\* processed the previous one
TaskPublish ==
    /\ worker.pc = "poll"
    /\ policyStore.latest.ts = worker.lastProcessedTimestamp
    /\ Publish

StopCall ==
    /\ Stop
    /\ UNCHANGED <<guardian, nRecords, otherVars>>

NextTasks ==
    \/ TaskPublish
    \/ WorkerStep
    \/ ExecuteStep
    \/ ExecuteRiskStep
    \/ ExecuteRecordStep
    \/ MonitorStep
    \/ MonitorRecordStep
    \/ ExecRefresh

\* every continuation that is ready is run by the event loop, and every
\* awaited call returns or throws
FairTasks ==
    /\ WF_vars(WorkerStep)
    /\ WF_vars(ExecuteStep)
    /\ WF_vars(ExecuteRiskStep)
    /\ WF_vars(ExecuteRecordStep)
    /\ WF_vars(MonitorStep)
    /\ WF_vars(MonitorRecordStep)

SpecTasks == InitTasks /\ [][NextTasks]_vars /\ FairTasks

\* the same tasks with a stop() call at any moment
NextStop ==
    \/ TaskPublish
    \/ TaskWorkerStep
    \/ ExecuteStep
    \/ ExecuteRiskStep
    \/ ExecuteRecordStep
    \/ MonitorStep
    \/ MonitorRecordStep
    \/ ExecRefresh
    \/ StopCall

SpecStop == InitTasks /\ [][NextStop]_vars

(* ------------------ the life of a tracked execution ------------------ *)
\* the chain settles the registered swap: it is confirmed or has failed
ChainSettle ==
    /\ pending.present
    /\ settled = "pending"
    /\ settled' \in {"confirmed", "failed"}
    /\ UNCHANGED <<now, faults, storeVars, ce, rec, guardian, nRecords,
                   histVars, engineVars, policyVars, execVars, sentimentVars,
                   sweeps, dispatched, crossover, limiter,
                   lateVars>>

\* the execution; a swap that is registered is new on chain
LifecycleExecuteStep ==
    /\ \/ ExRisk
       \/ ExSwap
       \/ ExBal
       \/ ExBurn
       \/ ExRecorded
       \/ ExRes1
       \/ ExRes2
       \/ ExRes3
    /\ settled' = IF tracker'.registered # tracker.registered
                  THEN "pending" ELSE settled
    /\ UNCHANGED <<guardian, nRecords, sentimentVars, sweeps, dispatched,
                   crossover, limiter,
                   lateVars>>

\* getTransactionStatus reports the status on chain
StatusReported ==
    /\ MonStatusWith(1, settled)
    /\ UNCHANGED <<guardian, nRecords, otherVars>>

\* getTransactionStatus: the query fails, or finds no status yet, and
\* "pending" is returned
StatusUnknown ==
    /\ MonStatusWith(1, "pending")
    /\ UNCHANGED <<guardian, nRecords, otherVars>>

\* a run of monitorPendingTransactions apart from its status query
LifecyclePollStep ==
    /\ \/ MonPoll(1)
       \/ MonRecorded(1)
    /\ UNCHANGED <<guardian, nRecords, otherVars>>

NextLifecycle ==
    \/ TaskPublish
    \/ WorkerStep
    \/ LifecycleExecuteStep
    \/ ExecuteRiskStep
    \/ ExecuteRecordStep
    \/ LifecyclePollStep
    \/ StatusReported
    \/ StatusUnknown
    \/ MonitorRecordStep
    \/ ChainSettle

\* the timer keeps starting poll runs and every awaited call returns; the
\* status query of a settled swap does not fail for ever
FairLifecycle ==
    /\ WF_vars(LifecyclePollStep)
    /\ WF_vars(MonitorRecordStep)
    /\ WF_vars(StatusReported \/ StatusUnknown)
    /\ SF_vars(StatusReported)

SpecLifecycle == InitTasks /\ [][NextLifecycle]_vars /\ FairLifecycle

(* ------------- SentimentAggregator driven by its worker --------------- *)
\* n earlier calls, each of rawScore 0: every EMA is 0 and the history holds
\* n zeros
InitAggregator ==
    /\ InitStore
    /\ nRecords = 0
    /\ InitPolicy
    /\ InitExecutor
    /\ cfg \in {[enableAutoExecution |-> TRUE, enableBurn |-> TRUE,
                  tokenMint |-> TRUE]}
    /\ \E n \in PriorScores :
        /\ historicalScores = [i \in 1..n |-> 0]
        /\ arrived = [i \in 1..n |-> 0]
        /\ emas = IF n = 0 THEN [ema5 |-> Null, ema15 |-> Null, ema60 |-> Null]
                  ELSE [ema5 |-> Frac(0, 1), ema15 |-> Frac(0, 1),
                        ema60 |-> Frac(0, 1)]
    /\ mood = EmptyMood
    /\ nAggregates = 0
    /\ lastCall = [op |-> "none", tweets |-> <<>>]
    /\ sweeps = FALSE
    /\ dispatched = [ts |-> <<>>, skipped |-> FALSE]
    /\ crossover = "unset"
    /\ settled = "pending"
    /\ limiter = NoLimiter
    /\ InitPipeline

\* SentimentWorker: const mood = this.aggregator.aggregate(batch)
AggregateCall ==
    /\ nAggregates < MaxAggregates
    /\ \E tweets \in Batches : Aggregate(tweets)
    /\ nAggregates' = nAggregates + 1
    /\ UNCHANGED <<now, faults, storeVars, ce, rec, guardian, nRecords,
                   histVars, engineVars, policyVars, execVars, sweeps,
                   dispatched, crossover, settled,
                   limiter,
                   lateVars>>

ResetCall ==
    /\ nAggregates < MaxAggregates
    /\ Reset
    /\ nAggregates' = nAggregates + 1
    /\ UNCHANGED <<now, faults, storeVars, ce, rec, guardian, nRecords,
                   histVars, engineVars, policyVars, execVars, sweeps,
                   dispatched, crossover, settled,
                   limiter,
                   lateVars>>

NextAggregator ==
    \/ AggregateCall
    \/ ResetCall

SpecAggregator == InitAggregator /\ [][NextAggregator]_vars

(* ------------- the z-score of the aggregator in doubles --------------- *)
InitDeviation ==
    /\ InitStore
    /\ nRecords = 0
    /\ InitPolicy
    /\ InitExecutor
    /\ InitSentiment
    /\ cfg = [enableAutoExecution |-> TRUE, enableBurn |-> TRUE,
              tokenMint |-> TRUE]

DeviationCall ==
    /\ nAggregates < MaxAggregates
    /\ \E score \in FloatScores : FloatAggregate(score)
    /\ nAggregates' = nAggregates + 1
    /\ UNCHANGED <<now, faults, storeVars, ce, rec, guardian, nRecords,
                   histVars, engineVars, policyVars, execVars, sweeps,
                   dispatched, crossover, settled,
                   limiter,
                   lateVars>>

NextDeviation ==
    \/ DeviationCall
    \/ ResetCall

SpecDeviation == InitDeviation /\ [][NextDeviation]_vars

(* ------------- the TweetQueue between its two workers ----------------- *)
\* enqueue calls of a run
MaxEnqueues == 3

queueFrame == <<now, storeVars, ce, rec, guardian, nRecords, histVars,
                engineVars, policyVars, execVars, sentimentVars, sweeps,
                dispatched, crossover, settled, limiter, batchVars, rival>>

\* IngestionWorker.ingestBatch: await this.queue.enqueue(...) per tweet found
IngestStep ==
    /\ \/ /\ enq.calls < MaxEnqueues
          /\ \E id \in TweetIds : EnqueueCall(id)
       \/ EnqMember
       \/ EnqPush
    /\ UNCHANGED queueFrame

\* SentimentWorker.start: await this.queue.dequeue()
DequeueStep ==
    /\ \/ DequeueCall
       \/ DeqPop
       \/ DeqMark
       \/ DeqExpire
    /\ UNCHANGED queueFrame

NextQueue ==
    \/ IngestStep
    \/ DequeueStep

SpecQueue == InitDeviation /\ [][NextQueue]_vars

(* ------- the SentimentWorker: its loop against its batch timer -------- *)
\* tweets the loop receives in a run
MaxTweets == 3

\* tweets buffered since the last batch when the run starts
PriorTweets == {0, batchSize - 2}

InitBatches ==
    /\ InitStore
    /\ nRecords = 0
    /\ InitPolicy
    /\ InitExecutor
    /\ cfg = [enableAutoExecution |-> TRUE, enableBurn |-> TRUE,
              tokenMint |-> TRUE]
    /\ historicalScores = <<>>
    /\ emas = [ema5 |-> Null, ema15 |-> Null, ema60 |-> Null]
    /\ mood = EmptyMood
    /\ arrived = <<>>
    /\ nAggregates = 0
    /\ lastCall = [op |-> "none", tweets |-> <<>>]
    /\ sweeps = FALSE
    /\ dispatched = [ts |-> <<>>, skipped |-> FALSE]
    /\ crossover = "unset"
    /\ settled = "pending"
    /\ limiter = NoLimiter
    /\ InitTweetQueue
    /\ \E n \in PriorTweets :
        /\ batchBuffer = [i \in 1..n |-> i]
        /\ loop = [IdleLoop EXCEPT !.taken = n, !.prior = n]
    /\ pb = [r \in BatchRuns |-> IdlePb]
    /\ batches = NoBatches
    /\ rival = IdleGuardian

batchFrame == <<now, storeVars, ce, rec, guardian, nRecords, histVars,
                engineVars, policyVars, execVars, sweeps, dispatched,
                crossover, settled, limiter, queueVars, rival>>

\* SentimentWorker.start: the loop
LoopStep ==
    /\ \/ /\ loop.taken - loop.prior < MaxTweets
          /\ LoopDequeue(loop.taken + 1)
       \/ LoopPredict
    /\ UNCHANGED batchFrame

\* setInterval(..., batchTimeoutMs)
BatchTimerStep ==
    /\ BatchTimer
    /\ UNCHANGED batchFrame

\* the awaited writes of storeMood, of either processBatch call
StoreMoodStep ==
    /\ \E r \in BatchRuns :
        \/ PbLatest(r)
        \/ PbHistory(r)
        \/ PbTimeline(r)
    /\ UNCHANGED batchFrame

NextBatches ==
    \/ LoopStep
    \/ BatchTimerStep
    \/ StoreMoodStep

SpecBatches == InitBatches /\ [][NextBatches]_vars

(* ----------------------------- claims C1-C5 --------------------------- *)
\* C1: whenever the kill-switch read of a canExecute call finds the switch
\* active, the call returns allowed = false with the kill-switch reason, for
\* every amount and whatever the balance, the daily spend and the loss count
\* are (a read that throws is the subject of C18, not of this claim).
C1_KillSwitchRejects ==
    [][\A c \in CeCallers :
        (ce[c].pc = "ks" /\ ce'[c].pc # "ks" /\ killSwitch /\ ~ce'[c].threw)
            => (ce'[c].pc = "ret" /\ ce'[c].res = "kill")]_vars

\* C1 witness: a call returned the kill-switch rejection in a state in which
\* every other check would have let the amount through.
C1_Witness ==
    /\ ce["test"].pc = "ret" /\ ce["test"].res = "kill" /\ ce["test"].clean
    /\ killSwitch
    /\ 100 * (GetTreasuryBalance - ce["test"].amt)
            >= GetTreasuryBalance * minTreasuryThresholdPct
    /\ 100 * (GetDailySpent(Today(now)) + ce["test"].amt)
            <= GetTreasuryBalance * maxDailySpendPercent
    /\ consecutiveLosses < maxConsecutiveLosses

\* the result the ordered chain of C2 prescribes in the current store state
ChainVerdict(amount) ==
    LET tb == IF treasury = Absent THEN 0 ELSE treasury
        ds == IF dailyKey[Today(now)].present THEN dailyKey[Today(now)].val ELSE 0
    IN  IF killSwitch THEN "kill"
        ELSE IF 100 * (tb - amount) < tb * minTreasuryThresholdPct THEN "reserve"
        ELSE IF 100 * (ds + amount) > tb * maxDailySpendPercent THEN "daily"
        ELSE IF consecutiveLosses >= maxConsecutiveLosses THEN "losses"
        ELSE "ok"

\* C2: canExecute is an ordered short-circuit chain: a call during which the
\* store and the clock stood still and no store call threw returns the reason
\* of the first failing check in the order kill switch, reserve, daily limit,
\* loss count, and allowed = true exactly when none of the four fails; with
\* a balance of 1000, 950 fails the reserve check and 850 passes it.
C2_OrderedChain ==
    /\ \A c \in CeCallers :
        (ce[c].pc = "ret" /\ ce[c].clean /\ ~ce[c].threw)
            => ce[c].res = ChainVerdict(ce[c].amt)
    /\ ReserveFails(1000, 950)
    /\ ~ReserveFails(1000, 850)

\* C2 witness: the daily limit and the loss count both fail and the reported
\* reason is the daily limit, the earlier of the two.
C2_Witness ==
    /\ ce["test"].pc = "ret" /\ ce["test"].clean /\ ce["test"].res = "daily"
    /\ consecutiveLosses >= maxConsecutiveLosses
    /\ ~killSwitch

\* the latest maxConsecutiveLosses recorded outcomes are all failures
LossStreak ==
    /\ Len(outcomes) >= maxConsecutiveLosses
    /\ \A i \in 1..Len(outcomes) :
        i > Len(outcomes) - maxConsecutiveLosses => ~outcomes[i]

\* C3: a canExecute call that gets as far as the loss-count check is rejected
\* for the loss count exactly when the latest maxConsecutiveLosses recorded
\* executions were all failures; so it is rejected after three failures in a
\* row and passes again after one recorded success.
C3_LossPause ==
    [][\A c \in CeCallers :
        (ce[c].pc = "cl" /\ ce'[c].pc = "ret" /\ ~ce'[c].threw)
            => /\ ce'[c].res \in {"losses", "ok"}
               /\ (ce'[c].res = "losses") <=> LossStreak]_vars

\* C3 witness: three failures, then one success, then a call that is allowed.
C3_Witness ==
    /\ outcomes = <<FALSE, FALSE, FALSE, TRUE>>
    /\ ce["test"].pc = "ret" /\ ce["test"].res = "ok"

\* C4: in every step the stored loss counter stays the same, or the
\* loss-counter write of a recordExecution call adds exactly 1 to it
\* (success = false) or sets it to 0 (success = true); no other step (of
\* canExecute, the kill-switch toggles, updateTreasuryBalance) changes it.
C4_LossCounterSteps ==
    [][\/ consecutiveLosses' = consecutiveLosses
       \/ \E c \in RecCallers :
            /\ rec[c].pc = "loss" /\ rec'[c].pc = "last"
            /\ IF rec[c].success THEN consecutiveLosses' = 0
               ELSE consecutiveLosses' = consecutiveLosses + 1]_vars

\* C4 witness: a recorded success has just taken the counter from 2 to 0.
C4_Witness ==
    /\ rec["test"].pc = "last" /\ rec["test"].success
    /\ outcomes = <<FALSE, FALSE, TRUE>>
    /\ consecutiveLosses = 0

\* C5: the incrbyfloat of recordExecution adds the amount to the spend key of
\* the day of the call, for success = true and success = false alike, and a
\* daily-spent read that canExecute makes on day d returns the sum of the
\* amounts recorded for day d only (it decides the daily check with it).
C5_DailySpentPerDay ==
    [][/\ \A c \in RecCallers :
            (rec[c].pc = "incr" /\ rec'[c].pc = "expire")
                => /\ dailyKey'[rec[c].day].present
                   /\ dailyKey'[rec[c].day].val =
                        (IF dailyKey[rec[c].day].present
                         THEN dailyKey[rec[c].day].val ELSE 0) + rec[c].amt
       /\ \A c \in CeCallers :
            (ce[c].pc = "ds" /\ ce'[c].pc # "ds" /\ ~ce'[c].threw
                /\ ce[c].day = Today(now))
                => /\ ce'[c].pc = "cl" => ce'[c].ds = recorded[Today(now)]
                   /\ (ce'[c].pc = "ret" /\ ce'[c].res = "daily")
                        <=> 100 * (recorded[Today(now)] + ce[c].amt)
                                > ce[c].tb * maxDailySpendPercent]_vars

\* C5 witness: on the second day, with the first day's key still in the
\* store, canExecute has read exactly what was recorded on the second day.
C5_Witness ==
    /\ Today(now) = 1
    /\ dailyKey[0].present /\ dailyKey[0].val > 0
    /\ recorded[1] > 0 /\ recorded[1] # recorded[0]
    /\ ce["test"].pc = "cl" /\ ce["test"].ds = recorded[1]

(* ----------------------------- claims C6-C10 -------------------------- *)
\* makeDecision has built its decision (it is being stored or returned)
Decided == eng.pc \in {"store1", "store2", "store3", "ret"}

\* C6 as stated: every BUYBACK decision that makeDecision returns leaves the
\* reserve of the treasury balance that is stored at the time the decision is
\* returned: treasuryBalance - size >= treasuryBalance * minTreasuryThreshold.
C6_ReserveAtReturn ==
    (eng.pc = "ret" /\ eng.action = "BUYBACK")
        => LET stored == IF treasury = Absent THEN 0 ELSE treasury
           IN  100 * (stored - eng.size) >= stored * minTreasuryThresholdPct

\* C6 amended: every BUYBACK decision that makeDecision builds leaves the
\* reserve of the treasury balance that the risk check of the call read, also
\* when the balance was refreshed between the size computation and the risk
\* check (a refresh after the risk check's read is not seen by the call).
C6_ReserveAtCheck ==
    (Decided /\ eng.action = "BUYBACK")
        => /\ eng.params
           /\ 100 * (eng.riskTb - eng.size) >= eng.riskTb * minTreasuryThresholdPct

\* C6 witness: a returned BUYBACK of a positive size whose risk check read a
\* balance other than the one the size was computed from.
C6_Witness ==
    /\ eng.pc = "ret" /\ eng.action = "BUYBACK"
    /\ eng.size > 0 /\ eng.riskTb # eng.tb

\* C7: in a single-process run with an unchanged treasury balance and no
\* store failure, the sizes of the buyback swaps that the Executor submits to
\* the chain client within one calendar day never add up to more than
\* treasuryBalance * maxDailySpendPercent / 100.
C7_DailyLimit ==
    \A d \in Days :
        100 * chain.swapped[d] <= treasury * maxDailySpendPercent

\* C7 witness: a swap has been submitted today, and the Executor's risk
\* check has rejected the next buyback of the day for the daily limit.
C7_Witness ==
    /\ chain.swapped[Today(now)] > 0
    /\ ex.pc = "ret" /\ ex.decision.action = "BUYBACK"
    /\ ~ex.success /\ ex.error = "daily"
    /\ 100 * (chain.swapped[Today(now)] + ex.decision.size)
            > treasury * maxDailySpendPercent

\* the last two history pairs show EMA15 crossing below EMA60
BearishNow ==
    LET n == Len(ema15History)
    IN  /\ n >= 2 /\ Len(ema60History) >= 2
        /\ ema15History[n - 1] >= ema60History[n - 1]
        /\ ema15History[n] < ema60History[n]

\* C8: the rules are evaluated in a fixed order and the first match wins:
\* hype gives HODL; otherwise a dip gives BUYBACK, or NOOP when the risk check
\* did not allow it; otherwise a bearish crossover with liquidity > 10000
\* gives BURN; otherwise NOOP.  A bearish crossover never gives BURN when
\* rule 1 or rule 2 matched.
C8_RuleOrder ==
    Decided =>
        IF eng.z >= hypeThreshold10 /\ eng.mom >= momentumPositive
        THEN eng.action = "HODL_TREASURY"
        ELSE IF eng.z <= fudThreshold10 /\ eng.mom <= momentumNegative
        THEN /\ eng.action \in {"BUYBACK", "NOOP"}
             /\ eng.action = "BUYBACK" <=> eng.riskRes = "ok"
        ELSE IF BearishNow /\ eng.liq > MinLiquidity
        THEN eng.action = "BURN"
        ELSE eng.action = "NOOP"

\* C8 witness: a bearish crossover with enough liquidity, and the decision is
\* the NOOP of a rejected buyback because rule 2 matched first.
C8_Witness ==
    /\ eng.pc = "ret" /\ BearishNow /\ eng.liq > MinLiquidity
    /\ eng.z <= fudThreshold10 /\ eng.mom <= momentumNegative
    /\ eng.action = "NOOP" /\ eng.reason = "blocked"

\* C9: when the buy-the-dip rule matches, canExecute is called with
\* k1 * |zScore| * treasuryBalance * dcaFactor for the balance getRiskMetrics
\* returned; an allowed check gives BUYBACK with exactly that size, a rejected
\* check gives NOOP with the rejection reason and no executionParams; a
\* decision has executionParams exactly when its action is BUYBACK.
C9_SizeAndDowngrade ==
    /\ [][(eng.pc = "metrics" /\ eng'.pc = "risk")
            => /\ ce'["engine"].pc = "ks"
               /\ ce'["engine"].amt * SizeDivisor =
                    Abs(eng.z) * (IF treasury = Absent THEN 0 ELSE treasury)
               /\ eng'.size = ce'["engine"].amt]_vars
    /\ [](Decided =>
            /\ eng.riskRes = "ok"
                => /\ eng.action = "BUYBACK" /\ eng.params
                   /\ eng.size * SizeDivisor = Abs(eng.z) * eng.tb
            /\ eng.riskRes \notin {"ok", "none"}
                => /\ eng.action = "NOOP" /\ ~eng.params
                   /\ eng.reason = "blocked" /\ eng.why = eng.riskRes
            /\ eng.params <=> eng.action = "BUYBACK")

\* C9 witness: the daily limit rejected the size of a dip and the returned
\* decision is NOOP with that reason.
C9_Witness ==
    /\ eng.pc = "ret" /\ eng.action = "NOOP" /\ eng.reason = "blocked"
    /\ eng.why = "daily" /\ eng.size > 0 /\ ~eng.params

\* C10: every makeDecision call appends its (ema15, ema60) pair to the two
\* histories, whichever rule fires, and nothing else changes them; the
\* histories have equal length, at most HistoryCap; a push that exceeds the
\* cap evicts the oldest pair.
C10_History ==
    /\ [](/\ Len(ema15History) = Len(ema60History)
          /\ Len(ema15History) <= HistoryCap
          /\ eng.pc # "idle"
                => /\ ema15History[Len(ema15History)] = eng.ema15
                   /\ ema60History[Len(ema60History)] = eng.ema60)
    /\ [][IF eng.pc = "idle" /\ eng'.pc # "idle"
          THEN LET a == ema15History \o <<eng'.ema15>>
                   b == ema60History \o <<eng'.ema60>>
               IN  IF Len(ema15History) = HistoryCap
                   THEN /\ ema15History' = SubSeq(a, 2, HistoryCap + 1)
                        /\ ema60History' = SubSeq(b, 2, HistoryCap + 1)
                   ELSE /\ ema15History' = a
                        /\ ema60History' = b
          ELSE UNCHANGED <<ema15History, ema60History>>]_vars

\* C10 witness: the histories are full, the oldest pair has been evicted, and
\* the call that pushed the newest pair returned BURN.
C10_Witness ==
    /\ eng.pc = "ret" /\ eng.action = "BURN"
    /\ Len(ema15History) = HistoryCap
    /\ nDecisions = 2
    /\ ema15History[1] = 0 /\ ema15History[2] = 1


(* ---------------------------- claims C11-C12 -------------------------- *)
\* the latest n entries of a sequence, all of it when it is shorter
LastN(s, n) == IF Len(s) <= n THEN s ELSE SubSeq(s, Len(s) - n + 1, Len(s))

\* C11: aggregate called with an empty batch returns the zeroed mood and
\* leaves the score history and the three EMA accumulators as they were, so
\* that every later aggregate call returns what it would have returned
\* without the empty call.
C11_EmptyBatch ==
    [][(nAggregates' = nAggregates + 1 /\ lastCall'.op = "aggregate"
            /\ lastCall'.tweets = <<>>)
        => /\ mood' = [rawScore |-> 0, zScore |-> [sgn |-> 0, sq |-> Frac(0, 1)],
                       ema5 |-> Frac(0, 1), ema15 |-> Frac(0, 1),
                       ema60 |-> Frac(0, 1), volume |-> 0, ourCoin |-> 0]
           /\ historicalScores' = historicalScores
           /\ emas' = emas]_vars
\* an empty batch has arrived at an aggregator whose history holds scores and
\* whose EMAs are not zero
C11_Witness ==
    /\ lastCall = [op |-> "aggregate", tweets |-> <<>>]
    /\ Len(historicalScores) > 0
    /\ emas.ema5.num # 0 /\ emas.ema15.num # 0 /\ emas.ema60.num # 0

\* C12: the score history holds at most 1000 entries, the most recent
\* rawScores in arrival order, and the zScore of a mood returned for a
\* non-empty batch is (rawScore - mean) / stdDev over the history that
\* already holds this rawScore (population deviation, 0 when it is 0).
C12_History ==
    /\ Len(historicalScores) <= 1000
    /\ historicalScores = LastN(arrived, 1000)
    /\ (lastCall.op = "aggregate" /\ lastCall.tweets # <<>>) =>
        LET n == Len(historicalScores)
            S == SumOver(historicalScores, 1, n, FALSE)
            Q == SumOver(historicalScores, 1, n, TRUE)
            A == n * mood.rawScore - S
            V == n * Q - S * S
        IN  /\ historicalScores[n] = mood.rawScore
            /\ (V = 0) => mood.zScore.sgn = 0
            /\ (V # 0) =>
                /\ (A > 0) = (mood.zScore.sgn > 0)
                /\ (A < 0) = (mood.zScore.sgn < 0)
                /\ mood.zScore.sq = Frac(A * A, V)
\* more than 1000 scores have arrived, so the oldest were evicted, and the
\* latest mood has a z-score that is not 0
C12_Witness ==
    /\ Len(arrived) > 1000
    /\ lastCall.op = "aggregate"
    /\ mood.zScore.sgn # 0


(* ---------------------------- claims C13-C16 -------------------------- *)
\* C13: for every interleaving of the timer-triggered monitor runs, an entry
\* observed as failed is removed and causes exactly one
\* recordExecution(amount, false) call in total, so the monitor runs never
\* make more such calls than entries were registered; an entry observed as
\* pending stays in the map and causes no RiskManager call.
C13_OneRecordPerFailure ==
    /\ [](tracker.failed <= tracker.registered)
    /\ [][\A m \in Monitors :
            /\ (mon[m].pc = "status" /\ mon'[m].pc = "record")
                    => ~pending'.present
            /\ (mon[m].pc = "status" /\ mon'[m].pc = "idle"
                    /\ pending.present /\ pending'.present)
                    => (rec' = rec /\ pending' = pending)]_vars


C15_Registered ==
    [][/\ (ex.pc \in {"swap", "burn"} /\ ex'.pc = "record" /\ ex'.success)
            => (pending'.present /\ pending'.decision = ex.decision)
       /\ (pending.present /\ pending'.present)
            => pending'.decision = pending.decision]_vars


\* C16: every transition of a tracked execution is written to the persisted
\* latest execution result and appended to the execution history: when
\* execute returns after a successful dispatch the latest result and the
\* history hold the successful result of the decision, and when a monitor
\* run that observed failed returns, the history holds a failed result of
\* the decision it had tracked.
C16_TransitionsStored ==
    [][/\ (ex.pc = "res3" /\ ex'.pc = "ret" /\ ex.success
                /\ ex.decision.action = "BUYBACK")
            => /\ execStore'.latest = [ts |-> ex.decision.ts, success |-> TRUE]
               /\ [ts |-> ex.decision.ts, success |-> TRUE]
                        \in execStore'.history
       /\ \A m \in Monitors :
            (mon[m].pc = "record" /\ mon'[m].pc = "idle")
                => [ts |-> mon[m].ts, success |-> FALSE] \in execStore'.history]_vars


(* ---------------------------- claims C17-C20 -------------------------- *)
\* C17: within one canExecute call the daily-limit check is evaluated with
\* the treasury balance that the store holds when the check is made, also
\* when the treasury refresh has written a new balance after the reserve
\* check read it.
C17_FreshBalance ==
    [][\A c \in CeCallers :
        (ce[c].pc = "ds" /\ ce'[c].pc # "ds" /\ ~ce'[c].threw)
            => ((ce'[c].pc = "ret" /\ ce'[c].res = "daily")
                <=> 100 * (GetDailySpent(ce[c].day) + ce[c].amt)
                        > GetTreasuryBalance * maxDailySpendPercent)]_vars


\* C18: a canExecute call in which a store call failed returns allowed =
\* false, and a makeDecision call in which a store call or the risk call
\* failed returns a NOOP decision, never a BUYBACK or a BURN.
C18_SafeDefault ==
    /\ \A c \in CeCallers :
            (ce[c].pc = "ret" /\ ce[c].threw) => ce[c].res # "ok"
    /\ (eng.pc = "ret" /\ eng.failed) => eng.action \notin {"BUYBACK", "BURN"}


\* C19: no public RiskManager operation lets a store failure escape to its
\* caller: canExecute, recordExecution, getRiskMetrics, activateKillSwitch,
\* deactivateKillSwitch and updateTreasuryBalance return normally when a
\* store call fails.
C19_NeverPropagated == raised = {}


\* C20: while the kill switch is active the Executor submits no transaction
\* to the chain client, neither a swap nor a burn, for every interleaving of
\* the activation with an execute call in progress.
C20_HaltedNoSubmission ==
    [][killSwitch => chain' = chain]_vars


(* ---------------------------- claims C21-C30 -------------------------- *)
\* C21: no buyback swap is submitted to the chain client while the stored
\* consecutiveLosses is at or above maxConsecutiveLosses, for every
\* interleaving of the execution loop with the monitor runs.
C21_NoSwapAtLossLimit ==
    [][chain'.swapped # chain.swapped
        => GetConsecutiveLosses < maxConsecutiveLosses]_vars


\* C22: activateKillSwitch and deactivateKillSwitch are idempotent.  A
\* completed activateKillSwitch(reason) leaves the switch active with that
\* reason stored, and a further activation with the same reason changes
\* nothing; a completed deactivateKillSwitch leaves the switch inactive with
\* no reason stored, and a further deactivation, or one made when the switch
\* was never activated, changes nothing.
C22_Idempotent ==
    [][/\ (guardian.pc = "idle" /\ guardian'.pc = "act")
            => /\ killSwitch'
               /\ (killSwitch /\ killSwitchReason = guardian'.reason)
                    => UNCHANGED <<killSwitch, killSwitchReason>>
       /\ (guardian.pc = "act" /\ guardian'.pc = "idle" /\ faults' = faults)
            => /\ killSwitch' /\ killSwitchReason' = guardian.reason
               /\ (killSwitch /\ killSwitchReason = guardian.reason)
                    => UNCHANGED <<killSwitch, killSwitchReason>>
       /\ (guardian.pc = "idle" /\ guardian'.pc = "deact")
            => /\ ~killSwitch'
               /\ (~killSwitch /\ killSwitchReason = "none")
                    => UNCHANGED <<killSwitch, killSwitchReason>>
       /\ (guardian.pc = "deact" /\ guardian'.pc = "idle" /\ faults' = faults)
            => /\ ~killSwitch' /\ killSwitchReason' = "none"
               /\ (~killSwitch /\ killSwitchReason = "none")
                    => UNCHANGED <<killSwitch, killSwitchReason>>]_vars
\* no store call has failed, the switch is active with the reason "manual"
\* stored by a completed activation, and a second activation with the same
\* reason has made its first write
C22_Witness ==
    /\ faults = 0
    /\ killSwitch /\ killSwitchReason = "manual"
    /\ guardian = [pc |-> "act", reason |-> "manual"]


\* C23: a failure in an iteration of the execution loop, of the treasury
\* refresh or of the transaction poll is caught inside that task.  No failure
\* ends the execution loop while the worker is running, and every task comes
\* back to the point where its next iteration starts: the loop to its top,
\* the poll run to its return.
C23_TasksSurvive ==
    /\ [](running => worker.pc # "stopped")
    /\ []<>(worker.pc \in {"poll", "stopped"})
    /\ []<>(mon[1].pc = "idle")
\* the store write of a treasury refresh has failed, and after it the
\* execution loop is inside an iteration and a poll run is in progress
C23_Witness ==
    /\ "updateTreasuryBalance" \in raised
    /\ running
    /\ worker.pc = "exec" /\ ex.pc = "res1"
    /\ mon[1].pc = "status"

\* C24: after stop() each of the three periodic tasks completes the
\* iteration in flight and starts no further one: the execution loop
\* executes no further decision and no further poll run starts.
C24_NoIterationAfterStop ==
    [][~running =>
        /\ (worker.pc \in {"poll", "stopped"}
                => worker'.pc \in {"poll", "stopped"})
        /\ \A m \in Monitors : mon[m].pc = "idle" => mon'[m].pc = "idle"]_vars

\* C25: the execution loop passes each published decision to execute at most
\* once.  lastProcessedTimestamp never decreases, a poll that reads a
\* decision whose timestamp is not above lastProcessedTimestamp passes
\* nothing to execute, and no timestamp is passed twice.
C25_AtMostOnce ==
    /\ [](\A i, j \in DOMAIN dispatched.ts :
              i # j => dispatched.ts[i] # dispatched.ts[j])
    /\ [][worker'.lastProcessedTimestamp >= worker.lastProcessedTimestamp]_vars
    /\ [][policyStore.latest.ts <= worker.lastProcessedTimestamp
              => dispatched'.ts = dispatched.ts]_vars
\* a decision has been executed and marked, a later poll has read it again
\* and skipped it, and it is still the latest decision
C25_Witness ==
    /\ Len(dispatched.ts) = 1
    /\ dispatched.skipped
    /\ worker.pc = "poll"
    /\ worker.lastProcessedTimestamp = dispatched.ts[1]
    /\ policyStore.latest.ts = dispatched.ts[1]

\* C26: detectCrossover returns "none" when either series has fewer than two
\* points.  Otherwise it returns "down" exactly when the previous fast point
\* is at or above the previous slow point and the current fast point is below
\* the current slow one, "up" exactly when the previous fast point is at or
\* below the previous slow point and the current fast point is above the
\* current slow one, and "none" otherwise; the two cases never hold together.
C26_Crossover ==
    crossover # "unset" =>
        LET n == Len(ema15History)
            m == Len(ema60History)
        IN  IF n < 2 \/ m < 2 THEN crossover = "none"
            ELSE LET down == /\ ema15History[n - 1] >= ema60History[m - 1]
                             /\ ema15History[n] < ema60History[m]
                     up == /\ ema15History[n - 1] <= ema60History[m - 1]
                           /\ ema15History[n] > ema60History[m]
                 IN  /\ crossover = "down" <=> down
                     /\ crossover = "up" <=> up
                     /\ crossover = "none" <=> ~down /\ ~up
                     /\ ~(down /\ up)
\* series of different lengths that were level and have crossed downwards
C26_Witness ==
    /\ crossover = "down"
    /\ Len(ema15History) = 3 /\ Len(ema60History) = 2
    /\ ema15History[2] = ema60History[1]
    /\ ema15History[1] < ema60History[1]

\* C27: aggregate returns zScore = 0 whenever the standard deviation of the
\* history is 0, that is whenever the scores of the history, the new one
\* included, are all equal.
C27_ZeroDeviation ==
    (lastCall.op = "aggregate"
        /\ \A i \in DOMAIN historicalScores :
                historicalScores[i] = historicalScores[1])
        => mood.zScore.sgn = 0

\* C27 (first part): the first aggregate call with a non-empty batch after construction or
\* after reset() returns ema5 = ema15 = ema60 = rawScore and zScore = 0, and
\* every aggregate call with a non-empty batch returns zScore = 0 when the
\* scores of the history, the new one included, are all equal (standard
\* deviation 0).
C27_FirstAggregate ==
    [][(nAggregates' = nAggregates + 1 /\ lastCall'.op = "aggregate"
            /\ lastCall'.tweets # <<>>)
        => /\ arrived = <<>>
                => /\ mood'.ema5 = [num |-> mood'.rawScore, den |-> 1]
                   /\ mood'.ema15 = [num |-> mood'.rawScore, den |-> 1]
                   /\ mood'.ema60 = [num |-> mood'.rawScore, den |-> 1]
                   /\ mood'.zScore.sgn = 0
           /\ (\A i \in DOMAIN historicalScores' :
                    historicalScores'[i] = historicalScores'[1])
                => mood'.zScore.sgn = 0]_vars
\* the aggregator has been reset after earlier calls and the batch that
\* followed has a score that is not 0
C27_Witness ==
    /\ nAggregates = MaxAggregates
    /\ lastCall.op = "aggregate"
    /\ Len(arrived) = 1
    /\ mood.rawScore # 0
    /\ mood.ema60.num = mood.rawScore /\ mood.ema60.den = 1

\* C28: a decision whose action is NOOP or HODL_TREASURY is never passed to
\* execute.  The poll that processes it makes no chain call and no
\* recordExecution call, leaves the store of the RiskManager (daily spent,
\* consecutive losses), the pending map and the stored execution results
\* unchanged, and only advances lastProcessedTimestamp.
C28_NoDispatch ==
    /\ [](ex.pc # "idle"
            => ex.decision.action \notin {"NOOP", "HODL_TREASURY"})
    /\ [][(/\ worker.pc = "poll"
           /\ policyStore.latest.action \in {"NOOP", "HODL_TREASURY"}
           /\ worker' # worker)
          => /\ worker' = [worker EXCEPT !.lastProcessedTimestamp =
                                             policyStore.latest.ts]
             /\ worker'.lastProcessedTimestamp > worker.lastProcessedTimestamp
             /\ UNCHANGED <<storeVars, histVars, chain, pending, execStore,
                            tracker, ex, ce, rec, dispatched.ts,
                   lateVars>>]_vars
\* a HODL_TREASURY decision published after an executed one has been
\* processed: the marker is at its timestamp and nothing is in execution
C28_Witness ==
    /\ policyStore.latest.action = "HODL_TREASURY"
    /\ worker = [pc |-> "poll",
                 lastProcessedTimestamp |-> policyStore.latest.ts]
    /\ Len(dispatched.ts) = 1
    /\ ex.pc = "idle"
    /\ execStore.latest # NoResults.latest

\* C29: a tracked execution is pending until the chain client reports it
\* confirmed or failed.  Once the swap is settled on chain and the poll task
\* keeps running, the entry is eventually removed from the pending map
\* (unless a newer swap, not yet settled, has been registered under the same
\* reference in the meantime); the entry is removed at no other moment, so
\* it stays tracked while the status reported is pending or the query
\* fails; and a poll run submits nothing to the chain.
C29_Lifecycle ==
    /\ (pending.present /\ settled # "pending")
            ~> (~pending.present \/ settled = "pending")
    /\ [][(pending.present /\ ~pending'.present)
            => /\ settled \in {"confirmed", "failed"}
               /\ mon[1].pc = "status"
               /\ mon'[1].pc = IF settled = "failed" THEN "record" ELSE "idle"]_vars
    /\ [][mon'[1] # mon[1] => chain' = chain /\ ex' = ex]_vars
\* a swap is tracked and confirmed on chain, and the poll run that queried it
\* was told "pending" and has returned
C29_Witness ==
    /\ pending.present
    /\ settled = "confirmed"
    /\ mon[1].pc = "idle"
    /\ tracker.registered = 1
    /\ ex.pc = "idle"

\* C30: the RateLimiter is a token bucket.  With a clock that does not
\* decrease the token count stays within [0, maxTokens]; acquire(n) returns
\* true exactly when at least n tokens are available after the refill and
\* then removes exactly n, and removes none when it returns false; and the
\* granted acquire(1) calls of an interval of T seconds are at most
\* maxTokens + refillRate * T.
C30_TokenBucket ==
    /\ [](0 <= limiter.tokens /\ limiter.tokens <= Capacity(limiter))
    /\ [][limiter'.call # limiter.call
            => LET unit == 1000 * limiter.den
                   sum == limiter.tokens
                            + (limiter.clock - limiter.lastRefill) * limiter.num
                   available == IF sum > limiter.maxTokens * unit
                                THEN limiter.maxTokens * unit ELSE sum
               IN  /\ limiter'.ok <=> available >= limiter'.n * unit
                   /\ limiter'.ok
                        => limiter'.tokens = available - limiter'.n * unit
                   /\ ~limiter'.ok => limiter'.tokens = available]_vars
    /\ [](limiter.granted * 1000 * limiter.den
            <= limiter.maxTokens * 1000 * limiter.den
                + (limiter.clock - limiter.since) * limiter.num)
\* a bucket that was emptied and has refilled in part: the latest
\* acquire(2) was refused with one and a half tokens in the bucket, after
\* granted acquire(1) calls
C30_Witness ==
    /\ limiter.maxTokens = 2
    /\ limiter.n = 2 /\ ~limiter.ok
    /\ 2 * limiter.tokens = 3 * UnitsPerToken(limiter)
    /\ limiter.granted >= 2
    /\ limiter.since = 0

(* ---------------------------- claims C31-C39 -------------------------- *)

\* C31: while the processed set is retained, dequeue never returns the same
\* tweet id twice, also when the id was enqueued several times before its
\* first dequeue.
C31_DeliveredOnce ==
    \A i, j \in 1..Len(delivered) :
        i # j => delivered[i] # delivered[j]

\* the results of an execute call that has called neither executeSwap nor
\* burnTokens for one of the reasons named: a rejection by canExecute, the
\* burn feature switched off, no token mint
Unsubmitted == {"kill", "reserve", "daily", "losses", "error",
                "Burn feature disabled", "Token mint not configured"}
SpentOn(keys, d) == IF keys[d].present THEN keys[d].val ELSE 0

\* C32: an execute call that submits nothing to the chain because its risk
\* check rejected the buyback, or because the burn feature or the token mint
\* is not configured, changes neither the daily spend nor consecutiveLosses:
\* no step of its recordExecution call does.
C32_UnsubmittedNotCounted ==
    [][(/\ ex.pc = "record"
        /\ ex.error \in Unsubmitted
        /\ rec'["executor"] # rec["executor"])
       => /\ consecutiveLosses' = consecutiveLosses
          /\ \A d \in Days : SpentOn(dailyKey', d) = SpentOn(dailyKey, d)]_vars

\* no execute call, monitor run or recordExecution call is in progress
ExecutorQuiet ==
    /\ worker.pc = "poll"
    /\ ex.pc = "idle"
    /\ \A m \in Monitors : mon[m].pc = "idle"
    /\ \A c \in RecCallers : rec[c].pc = "idle"

\* C33: a submitted buyback of size s contributes exactly s to the dailySpent
\* of its day whatever its outcome: once the only decision of the day, a
\* BUYBACK, has been dispatched and observed, and all calls have returned,
\* dailySpent is the amount submitted to the chain (s, not 2s).
C33_SpentOnce ==
    (/\ nDecisions = 1
     /\ policyStore.latest.action = "BUYBACK"
     /\ worker.lastProcessedTimestamp = 1
     /\ ExecutorQuiet)
        => SpentOn(dailyKey, Today(now)) = chain.swapped[Today(now)]

\* C34: every BUYBACK decision that makeDecision returns carries a strictly
\* positive executionParams.size, also when the stored treasury balance is 0
\* or absent (so the Executor never fails it for missing parameters).
C34_PositiveSize ==
    (eng.pc = "ret" /\ eng.action = "BUYBACK")
        => (eng.params /\ eng.size > 0)

\* C35: with auto-execution disabled, execute submits nothing to the chain,
\* calls neither canExecute nor recordExecution, tracks nothing and writes
\* neither the latest execution result nor the history; it returns a result
\* with success = false, and the ExecutorWorker marks the decision processed.
C35_AutoExecutionOff ==
    /\ [](~cfg.enableAutoExecution
            => /\ chain = [swapped |-> [d \in Days |-> 0], burns |-> 0]
               /\ ce["executor"] = IdleCe
               /\ rec["executor"] = IdleRec
               /\ pending = NoPending /\ tracker = NoTracker
               /\ execStore = NoResults
               /\ ex.pc \in {"idle", "ret"}
               /\ ex.pc = "ret"
                    => /\ ~ex.success
                       /\ ex.error = "Auto-execution disabled")
    /\ [][(~cfg.enableAutoExecution /\ worker.pc = "exec")
            => /\ UNCHANGED <<storeVars, histVars, chain, pending, execStore>>
               /\ worker'.pc = "poll"
                    => worker'.lastProcessedTimestamp = ex.decision.ts]_vars
\* auto-execution is off and the worker has processed a BUYBACK and then a
\* BURN decision
C35_Witness ==
    /\ ~cfg.enableAutoExecution
    /\ worker.pc = "poll"
    /\ policyStore.latest.action = "BURN"
    /\ worker.lastProcessedTimestamp = policyStore.latest.ts
    /\ policyStore.latest.ts = 2

\* C36: for every interleaving of the loop with the batch timer, every tweet
\* pushed into the batch buffer is included in exactly one aggregate call: no
\* buffered tweet is aggregated twice and none is cleared from the buffer
\* without having been aggregated.
C36_AggregatedOnce ==
    /\ batches.twice = {}
    /\ batches.dropped = {}

\* C37: in every quiescent state (no kill-switch call in progress, none has
\* failed) the stored reason is present if and only if the kill switch is
\* active, for every interleaving of concurrent activateKillSwitch and
\* deactivateKillSwitch calls.
C37_ReasonIffActive ==
    (guardian.pc = "idle" /\ rival.pc = "idle" /\ raised = {})
        => (killSwitchReason # "none" <=> killSwitch)

SamePairTwice ==
    LET n == Len(ema15History)
    IN  /\ n >= 2
        /\ ema15History[n - 1] = ema15History[n]
        /\ ema60History[n - 1] = ema60History[n]

\* C39: a BURN decision needs two differing consecutive history pairs: the
\* first makeDecision call of a fresh DecisionEngine never gives BURN, and a
\* call whose mood has the ema15 and ema60 of the previous call never gives
\* BURN, so one bearish crossover gives BURN in at most one cycle.
C39_BurnNeedsTwoPairs ==
    /\ [](eng.action = "BURN"
            => (Len(ema15History) >= 2 /\ ~SamePairTwice /\ BearishNow))
    /\ [][(eng.pc = "idle" /\ eng'.pc # "idle")
            => /\ ema15History = <<>> => eng'.action # "BURN"
               /\ (/\ ema15History # <<>>
                   /\ eng'.ema15 = ema15History[Len(ema15History)]
                   /\ eng'.ema60 = ema60History[Len(ema60History)])
                    => eng'.action # "BURN"]_vars
\* the first call of the run gave BURN on a bearish crossover; the second
\* call was given the same ema15 and ema60, with liquidity and neither
\* the hype nor the dip rule matching, and gives NOOP
C39_Witness ==
    /\ policyStore.latest.action = "BURN" /\ policyStore.latest.ts = 1
    /\ eng.pc = "store1" /\ eng.ts = 2
    /\ eng.action = "NOOP" /\ eng.reason = "default"
    /\ eng.liq > MinLiquidity
    /\ SamePairTwice
    /\ eng.ema15 < eng.ema60

============================================================================
